---- MODULE Spec2Model ----
(***************************************************************************)
(* A model of the question lifecycle of remAInd: generation of a batch of  *)
(* questions by an LLM, grading of answers, user statistics and the daily  *)
(* quota.  Requests are processed one at a time; every action is one       *)
(* request handler, run from its first line to its response.               *)
(*                                                                         *)
(* Texts are sequences of characters.  A character is a one-element        *)
(* string; the tokens "NL", "SEI", "KAI", "SETSU" stand for the line       *)
(* break and for the characters of the labels the grading reply is parsed  *)
(* for.  A nullable field holds None (the empty set) or Some(v).           *)
(***************************************************************************)
EXTENDS Integers, Sequences, FiniteSets, TLC

VARIABLES users, questions, session, today, graded, last, inflight

vars == <<users, questions, session, today, graded, last, inflight>>

-----------------------------------------------------------------------------
(* Bounds of the model *)

MaxBatches == 2
MaxDay == 2
MaxGradings == 2
MaxTextLen == 4
MaxParseLen == 6
MaxPast == 3

Users == {"u1", "u2"}

-----------------------------------------------------------------------------
(* Nullable values *)

None == {}
Some(x) == {x}
Val(o) == CHOOSE x \in o : TRUE

Min(S) == CHOOSE x \in S : \A y \in S : x <= y

-----------------------------------------------------------------------------
(* Strings *)

NL == "NL"
Whitespace == {" ", NL}

RECURSIVE LStrip(_)
LStrip(s) ==
    IF s # <<>> /\ Head(s) \in Whitespace THEN LStrip(Tail(s)) ELSE s

RECURSIVE RStrip(_)
RStrip(s) ==
    IF s # <<>> /\ s[Len(s)] \in Whitespace
    THEN RStrip(SubSeq(s, 1, Len(s) - 1))
    ELSE s

Strip(s) == RStrip(LStrip(s))

StartsWith(s, p) == Len(s) >= Len(p) /\ SubSeq(s, 1, Len(p)) = p

Find(s, p) ==
    {i \in 1..(Len(s) - Len(p) + 1) : SubSeq(s, i, i + Len(p) - 1) = p}

Contains(s, p) == Find(s, p) # {}

RECURSIVE Split(_, _)
Split(s, sep) ==
    LET hits == Find(s, sep)
    IN  IF hits = {}
        THEN <<s>>
        ELSE LET i == Min(hits)
             IN  <<SubSeq(s, 1, i - 1)>>
                     \o Split(SubSeq(s, i + Len(sep), Len(s)), sep)

RECURSIVE RemoveAll(_, _)
RemoveAll(s, pats) ==
    IF s = <<>>
    THEN <<>>
    ELSE LET m == {p \in pats : StartsWith(s, p)}
         IN  IF m # {}
             THEN RemoveAll(SubSeq(s, Len(Val(m)) + 1, Len(s)), pats)
             ELSE <<Head(s)>> \o RemoveAll(Tail(s), pats)

UpperChar(c) ==
    CASE c = "a" -> "A"
      [] c = "b" -> "B"
      [] c = "c" -> "C"
      [] c = "d" -> "D"
      [] OTHER -> c

Upper(s) == [i \in 1..Len(s) |-> UpperChar(s[i])]

RECURSIVE Join(_, _)
Join(parts, sep) ==
    IF parts = <<>> THEN <<>>
    ELSE IF Len(parts) = 1 THEN parts[1]
    ELSE parts[1] \o sep \o Join(Tail(parts), sep)

-----------------------------------------------------------------------------
(* Numbers: a float is kept as the exact fraction it was computed from *)

RECURSIVE GCD(_, _)
GCD(a, b) == IF b = 0 THEN a ELSE GCD(b, a % b)

Rat(n, d) == LET g == GCD(n, d) IN [num |-> n \div g, den |-> d \div g]

-----------------------------------------------------------------------------
(* Similarity of a stem to stored questions: difflib.SequenceMatcher.ratio *)
(* without the autojunk heuristic, which needs a text of 200 characters    *)

Max(S) == CHOOSE x \in S : \A y \in S : x >= y

\* length of the common run of a from i and b from j, within the windows
RunLength(a, b, i, j, ahi, bhi) ==
    LET lim == IF ahi - i < bhi - j THEN ahi - i + 1 ELSE bhi - j + 1
        stop == {k \in 0..(lim - 1) : a[i + k] # b[j + k]}
    IN  IF stop = {} THEN lim ELSE Min(stop)

\* find_longest_match: the longest block, the earliest in a, then in b
LongestMatch(a, b, alo, ahi, blo, bhi) ==
    LET starts == {p \in (alo..ahi) \X (blo..bhi) : a[p[1]] = b[p[2]]}
        size == IF starts = {} THEN 0
                ELSE Max({RunLength(a, b, p[1], p[2], ahi, bhi) : p \in starts})
        longest == {p \in starts :
                       RunLength(a, b, p[1], p[2], ahi, bhi) = size}
        i == Min({p[1] : p \in longest})
        j == Min({p[2] : p \in {q \in longest : q[1] = i}})
    IN  IF size = 0 THEN [i |-> alo, j |-> blo, size |-> 0]
        ELSE [i |-> i, j |-> j, size |-> size]

\* get_matching_blocks: the total length of the matching blocks
RECURSIVE MatchedLength(_, _, _, _, _, _)
MatchedLength(a, b, alo, ahi, blo, bhi) ==
    IF alo > ahi \/ blo > bhi
    THEN 0
    ELSE LET m == LongestMatch(a, b, alo, ahi, blo, bhi)
         IN  IF m.size = 0
             THEN 0
             ELSE m.size
                  + MatchedLength(a, b, alo, m.i - 1, blo, m.j - 1)
                  + MatchedLength(a, b, m.i + m.size, ahi, m.j + m.size, bhi)

ratio(a, b) ==
    IF Len(a) + Len(b) = 0
    THEN Rat(1, 1)
    ELSE Rat(2 * MatchedLength(a, b, 1, Len(a), 1, Len(b)), Len(a) + Len(b))

\* threshold = 0.4
ThresholdNum == 2
ThresholdDen == 5

ExceedsThreshold(r) == r.num * ThresholdDen > ThresholdNum * r.den

-----------------------------------------------------------------------------
(* Sample texts: the replies of the completion service and their blocks *)

Labels == <<"1", "2", "3", "4", "5", "6", "7", "8", "9", "0", "#">>

OptionA == <<"(", "A", ")", "p">>
OptionB == <<"(", "B", ")", "q">>
OptionC == <<"(", "C", ")", "r">>
OptionD == <<"(", "D", ")", "s">>

\* a stem of ten characters: nine times c, then the label of the block
Stem(c, k) == [i \in 1..10 |-> IF i < 10 THEN c ELSE Labels[k]]

ValidBlock(c, k) ==
    Join(<<Stem(c, k), OptionA, OptionB, OptionC, OptionD>>, <<NL>>)

\* ten characters on the first line, nine of them once stripped
ShortStemBlock ==
    Join(<<<<" ">> \o SubSeq(Stem("x", 1), 1, 9),
           OptionA, OptionB, OptionC, OptionD>>, <<NL>>)

\* five lines, one of them blank
FewLinesBlock ==
    Join(<<Stem("x", 2), OptionA, <<" ">>, OptionB, OptionC>>, <<NL>>)

FullReply(c) ==
    Join(<<ValidBlock(c, 1), ShortStemBlock, ValidBlock(c, 2),
           ValidBlock(c, 3), FewLinesBlock, ValidBlock(c, 4),
           ValidBlock(c, 5), ValidBlock(c, 6), ValidBlock(c, 7),
           ValidBlock(c, 8), ValidBlock(c, 9), ValidBlock(c, 10),
           ValidBlock(c, 11)>>, <<NL, NL>>)

PartReply(c) ==
    <<NL>> \o Join(<<ValidBlock(c, 1), FewLinesBlock, ValidBlock(c, 2),
                     ValidBlock(c, 3), ValidBlock(c, 4)>>, <<NL, NL>>)
           \o <<" ", NL>>

EmptyReply == <<>>

ReplyNames == {"full_x", "part_x", "full_y", "part_y", "empty"}

ReplyText(name) ==
    CASE name = "full_x" -> FullReply("x")
      [] name = "part_x" -> PartReply("x")
      [] name = "full_y" -> FullReply("y")
      [] name = "part_y" -> PartReply("y")
      [] name = "empty" -> EmptyReply

\* what a completion source answers to the successive requests of one call
Scripts ==
    {<<"full_x", "empty", "empty", "empty", "empty">>,
     <<"part_y", "empty", "part_y", "full_y", "empty">>,
     <<"part_x", "empty", "empty", "part_x", "empty">>}

Range(f) == {f[i] : i \in DOMAIN f}

-----------------------------------------------------------------------------
(* Candidate blocks of a reply, and the table of the sample texts.  The   *)
(* state holds a text as its index in TextTable; the operators that read   *)
(* a text read its characters there.                                       *)

MIN_LINES == 5
MIN_STEM_LENGTH == 10

\* questions_data_all.strip().split('\n\n')
SplitReply(reply) == Split(Strip(reply), <<NL, NL>>)

\* lines, non_empty_lines and main_question of one candidate block
BlockShape(question_data) ==
    LET lines == Split(question_data, <<NL>>)
    IN  [non_empty_lines |-> Len(SelectSeq(lines, LAMBDA l : Strip(l) # <<>>)),
         main_question |-> Strip(lines[1])]

RECURSIVE SetToSeq(_)
SetToSeq(S) ==
    IF S = {} THEN <<>>
    ELSE LET x == CHOOSE y \in S : TRUE IN <<x>> \o SetToSeq(S \ {x})

TextTable ==
    SetToSeq(UNION {Range(SplitReply(ReplyText(name))) : name \in ReplyNames})

TextIds == DOMAIN TextTable

Intern(text) == CHOOSE i \in TextIds : TextTable[i] = text

Text(i) == TextTable[i]

\* the values of the operators above on the sample texts, computed once
BlocksOfReply ==
    [name \in ReplyNames |->
        LET blocks == SplitReply(ReplyText(name))
        IN  [k \in DOMAIN blocks |-> Intern(blocks[k])] @@ <<>>] @@ <<>>

ShapeOfBlock == [i \in TextIds |-> BlockShape(Text(i))] @@ <<>>

StemTable == SetToSeq({ShapeOfBlock[i].main_question : i \in TextIds})

StemId(stem) == CHOOSE k \in DOMAIN StemTable : StemTable[k] = stem

SimilarityOf ==
    [k \in DOMAIN StemTable |->
        [i \in TextIds |-> ratio(StemTable[k], Text(i))] @@ <<>>] @@ <<>>

-----------------------------------------------------------------------------
(* Rows of the database *)

NewUser ==
    [is_premium |-> FALSE,
     correct_count |-> 0,
     generate_count |-> 0,
     accuracy |-> Rat(0, 1),
     not_answered_count |-> 0,
     last_generated_date |-> None,
     daily_generated_count |-> 0,
     stripe_customer_id |-> None,
     subscription |-> None]

NewQuestion(u, theme, text, number) ==
    [user |-> u,
     theme |-> theme,
     question_text |-> text,
     question_number |-> number,
     correct_option |-> None,
     is_correct |-> None,
     is_correct_first |-> None,
     explanation |-> None]

QuestionIds == 1..Len(questions)

\* Question.objects.filter(user=u, theme=theme).order_by('id')
ByUserTheme(qs, u, theme) ==
    SelectSeq([i \in 1..Len(qs) |-> i],
              LAMBDA i : qs[i].user = u /\ qs[i].theme = theme)

-----------------------------------------------------------------------------
(* Grading of an answer *)

CorrectLabel == <<"SEI", "KAI", ":">>
ExplainLabel == <<"KAI", "SETSU", ":">>

RECURSIVE ScanGrading(_, _, _)
ScanGrading(lines, correct_option, explanation_text) ==
    IF lines = <<>>
    THEN [correct_option |-> correct_option,
          explanation_text |-> explanation_text]
    ELSE LET line == Head(lines)
         IN  IF StartsWith(line, CorrectLabel)
             THEN ScanGrading(Tail(lines),
                      Some(Strip(RemoveAll(line,
                          {CorrectLabel, <<"(">>, <<")">>}))),
                      explanation_text)
             ELSE IF StartsWith(line, ExplainLabel)
             THEN ScanGrading(Tail(lines), correct_option,
                      Strip(RemoveAll(line, {ExplainLabel})))
             ELSE ScanGrading(Tail(lines), correct_option, explanation_text)

\* the reply of the completion request is the input; the parse is the code's
check_answer_with_ai(reply) ==
    ScanGrading(Split(Strip(reply), <<NL>>), None, <<>>)

\* user_answer.upper() == correct_option.upper(); None has no upper()
is_correct_raises(user_answer, correct_option) == correct_option = None

is_correct(user_answer, correct_option) ==
    Upper(user_answer) = Upper(Val(correct_option))

\* variant: every grading call writes is_correct_first
update_question_overwriting(qs, question_id, is_corr, correct_option, explanation_text) ==
    LET question == qs[question_id]
        is_first == question.is_correct_first = None
        flagged == [question EXCEPT !.is_correct_first = Some(is_corr)]
        saved == [flagged EXCEPT !.correct_option = correct_option,
                                !.explanation = Some(explanation_text)]
    IN  [questions |-> [qs EXCEPT ![question_id] = saved],
         is_first |-> is_first]

\* variant: the first grading call writes both flags
update_question_both(qs, question_id, is_corr, correct_option, explanation_text) ==
    LET question == qs[question_id]
        is_first == question.is_correct_first = None
        flagged ==
            IF is_first
            THEN [question EXCEPT !.is_correct_first = Some(is_corr),
                                  !.is_correct = Some(is_corr)]
            ELSE [question EXCEPT !.is_correct = Some(is_corr)]
        saved == [flagged EXCEPT !.correct_option = correct_option,
                                !.explanation = Some(explanation_text)]
    IN  [questions |-> [qs EXCEPT ![question_id] = saved],
         is_first |-> is_first]

update_question(qs, question_id, is_corr, correct_option, explanation_text) ==
    LET question == qs[question_id]
        is_first == question.is_correct_first = None
        flagged ==
            IF is_first
            THEN [question EXCEPT !.is_correct_first = Some(is_corr)]
            ELSE [question EXCEPT !.is_correct = Some(is_corr)]
        saved == [flagged EXCEPT !.correct_option = correct_option,
                                !.explanation = Some(explanation_text)]
    IN  [questions |-> [qs EXCEPT ![question_id] = saved],
         is_first |-> is_first]

\* variant: every correct grading is counted
update_statistics_every_correct(user, is_first, is_corr) ==
    LET counted ==
            IF is_corr
            THEN [user EXCEPT !.correct_count = @ + 1]
            ELSE user
    IN  IF counted.generate_count > 0
        THEN [counted EXCEPT
                 !.accuracy = Rat(counted.correct_count * 100,
                                  counted.generate_count)]
        ELSE counted

update_statistics(user, is_first, is_corr) ==
    LET counted ==
            IF is_first /\ is_corr
            THEN [user EXCEPT !.correct_count = @ + 1]
            ELSE user
    IN  IF counted.generate_count > 0
        THEN [counted EXCEPT
                 !.accuracy = Rat(counted.correct_count * 100,
                                  counted.generate_count)]
        ELSE counted

\* Question.objects.filter(user=user, is_correct=None).count()
update_not_answered_count(qs, u, user) ==
    [user EXCEPT !.not_answered_count =
        Cardinality({i \in 1..Len(qs) :
                        qs[i].user = u /\ qs[i].is_correct = None})]

-----------------------------------------------------------------------------
(* Retrieval of the question a request is about *)

\* a question_id parameter of a request: absent (''), a number, or not a number
NoId == [kind |-> "empty", n |-> 0]
BadId == [kind |-> "bad", n |-> 0]
NumId(n) == [kind |-> "num", n |-> n]

ContainsPrefixLen == 50

get_questions(qs, sess, u, keyword, is_retry, question_text, question_id) ==
    LET by_theme == ByUserTheme(qs, u, keyword)
        exact == SelectSeq(by_theme,
                     LAMBDA i : Text(qs[i].question_text) = question_text)
        needle == IF Len(question_text) > ContainsPrefixLen
                  THEN SubSeq(question_text, 1, ContainsPrefixLen)
                  ELSE question_text
        partial == SelectSeq(by_theme,
                       LAMBDA i : Contains(Text(qs[i].question_text), needle))
    IN  IF is_retry
        THEN IF question_id.kind # "empty"
             THEN IF question_id.kind = "bad"
                  THEN [raises |-> "ValueError", kind |-> "qs", items |-> <<>>]
                  ELSE [raises |-> "", kind |-> "qs", items |-> by_theme]
             ELSE IF question_text # <<>>
             THEN [raises |-> "", kind |-> "qs",
                   items |-> IF Len(exact) = 0 THEN partial ELSE exact]
             ELSE [raises |-> "", kind |-> "qs", items |-> by_theme]
        ELSE [raises |-> "", kind |-> "list", items |-> sess[u]]

\* the result is a session entry for a list and a question id for a query set
get_current_question(qs, all_questions, question_index, is_retry, question_id) ==
    LET items == all_questions.items
        count == Len(items)
        out_of_range == question_index < 0 \/ question_index >= count
        by_index ==
            IF out_of_range
            THEN [raises |-> "IndexError", id |-> 0, entry |-> None]
            ELSE IF all_questions.kind = "list"
            THEN [raises |-> "", id |-> items[question_index + 1].question_id,
                  entry |-> Some(items[question_index + 1])]
            ELSE [raises |-> "", id |-> items[question_index + 1],
                  entry |-> None]
    IN  IF all_questions.kind = "list"
        THEN by_index
        ELSE IF count = 0
        THEN [raises |-> "IndexError", id |-> 0, entry |-> None]
        ELSE IF question_id.kind # "empty" /\ is_retry
        THEN IF question_id.kind = "num" /\ question_id.n \in 1..Len(qs)
             THEN [raises |-> "", id |-> question_id.n, entry |-> None]
             ELSE by_index
        ELSE by_index

\* AnswerQuestionView._get_question_data: the id and the text that are graded
get_question_data(qs, sess, u, keyword, question_number, is_retry, question_text, question_id) ==
    LET all_questions ==
            get_questions(qs, sess, u, keyword, is_retry, question_text,
                          question_id)
        current == get_current_question(qs, all_questions,
                       question_number - 1, is_retry, question_id)
    IN  IF all_questions.raises # ""
        THEN [raises |-> all_questions.raises, id |-> 0, text |-> <<>>]
        ELSE IF Len(all_questions.items) = 0
        THEN [raises |-> "IndexError", id |-> 0, text |-> <<>>]
        ELSE IF current.raises # ""
        THEN [raises |-> current.raises, id |-> 0, text |-> <<>>]
        ELSE IF all_questions.kind = "list"
        THEN [raises |-> "", id |-> current.id,
              text |-> Text(Val(current.entry).question_text)]
        ELSE [raises |-> "", id |-> current.id,
              text |-> Text(qs[current.id].question_text)]

-----------------------------------------------------------------------------
(* The daily quota *)

DAILY_LIMIT == 10

\* user.save() follows every change, so the returned row is the stored one
\* variant: the stored date is never compared with today's
can_generate_without_reset(user, day) ==
    IF user.is_premium
    THEN [ok |-> TRUE, user |-> user]
    ELSE [ok |-> ~(user.daily_generated_count >= DAILY_LIMIT),
          user |-> [user EXCEPT !.last_generated_date = Some(day)]]

\* variant: a user at the limit may still generate
can_generate_above_limit(user, day) ==
    IF user.is_premium
    THEN [ok |-> TRUE, user |-> user]
    ELSE LET checked ==
                 IF user.last_generated_date # Some(day)
                 THEN [user EXCEPT !.last_generated_date = Some(day),
                                   !.daily_generated_count = 0]
                 ELSE user
         IN  [ok |-> ~(checked.daily_generated_count > DAILY_LIMIT),
              user |-> checked]

can_generate(user, day) ==
    IF user.is_premium
    THEN [ok |-> TRUE, user |-> user]
    ELSE LET checked ==
                 IF user.last_generated_date # Some(day)
                 THEN [user EXCEPT !.last_generated_date = Some(day),
                                   !.daily_generated_count = 0]
                 ELSE user
         IN  [ok |-> ~(checked.daily_generated_count >= DAILY_LIMIT),
              user |-> checked]

\* variant: premium users are counted too
update_daily_count_any_user(user, question_count) ==
    [user EXCEPT !.daily_generated_count = @ + question_count]

update_daily_count(user, question_count) ==
    IF ~user.is_premium
    THEN [user EXCEPT !.daily_generated_count = @ + question_count]
    ELSE user

-----------------------------------------------------------------------------
(* Generation and validation of candidate blocks *)

\* the loop over the ratios of the past questions, from position i: whether
\* it returned True, and how many ratios it had examined when it returned
RECURSIVE ScanRatios_nonstrict(_, _)
ScanRatios_nonstrict(similarities, i) ==
    IF i > Len(similarities)
    THEN [result |-> FALSE, examined |-> Len(similarities)]
    ELSE IF similarities[i].num * ThresholdDen
                >= ThresholdNum * similarities[i].den
         THEN [result |-> TRUE, examined |-> i]
         ELSE ScanRatios_nonstrict(similarities, i + 1)

RECURSIVE ScanRatios(_, _)
ScanRatios(similarities, i) ==
    IF i > Len(similarities)
    THEN [result |-> FALSE, examined |-> Len(similarities)]
    ELSE IF ExceedsThreshold(similarities[i])
         THEN [result |-> TRUE, examined |-> i]
         ELSE ScanRatios(similarities, i + 1)

\* past_questions holds the ids of stored texts; the result of the loop is
\* read from the table of their ratios
is_similar(new_question, past_questions) ==
    LET similarity == SimilarityOf[StemId(new_question)]
    IN  \E i \in 1..Len(past_questions) :
            ExceedsThreshold(similarity[past_questions[i]])

\* a call with texts that are not stored: its arguments and what it returned
is_similar_call(call) ==
    [call EXCEPT !.returned =
        Some(ScanRatios([i \in 1..Len(call.past_questions) |->
                            ratio(call.new_question, call.past_questions[i])],
                        1))]

PAST_LIMIT == 20

\* the texts of Question.objects.filter(user=u, theme=theme)[:20], newest first
PastQuestions(qs, u, theme) ==
    LET ids == ByUserTheme(qs, u, theme)
        n == IF Len(ids) < PAST_LIMIT THEN Len(ids) ELSE PAST_LIMIT
    IN  [i \in 1..n |-> qs[ids[Len(ids) + 1 - i]].question_text]

accepts(question_data, past_questions) ==
    LET shape == ShapeOfBlock[question_data]
    IN  /\ ~(shape.non_empty_lines < MIN_LINES)
        /\ ~(Len(shape.main_question) < MIN_STEM_LENGTH)
        /\ ~(past_questions # <<>>
               /\ is_similar(shape.main_question, past_questions))

\* the inner loop: append the accepted blocks until max_questions are held
RECURSIVE ScanBlocks(_, _, _, _)
ScanBlocks(questions_data, valid_questions, past_questions, max_questions) ==
    IF questions_data = <<>> \/ Len(valid_questions) >= max_questions
    THEN valid_questions
    ELSE ScanBlocks(Tail(questions_data),
             IF accepts(Head(questions_data), past_questions)
             THEN Append(valid_questions, Head(questions_data))
             ELSE valid_questions,
             past_questions, max_questions)

\* the outer loop: one completion request per attempt
RECURSIVE Attempts(_, _, _, _, _, _)
Attempts(replies, attempt, valid_questions, past_questions, max_questions, max_attempts) ==
    IF attempt < max_attempts /\ Len(valid_questions) < max_questions
    THEN Attempts(replies, attempt + 1,
             ScanBlocks(BlocksOfReply[replies[attempt + 1]], valid_questions,
                        past_questions, max_questions),
             past_questions, max_questions, max_attempts)
    ELSE [valid_questions |-> valid_questions, requests |-> attempt]

MAX_QUESTIONS == 10
MAX_ATTEMPTS == 5

generate_and_validate_eleven(replies, past_questions) ==
    Attempts(replies, 0, <<>>, past_questions, MAX_QUESTIONS + 1, MAX_ATTEMPTS)

\* past_questions = <<>> stands for None and for an empty query set alike
generate_and_validate(replies, past_questions) ==
    Attempts(replies, 0, <<>>, past_questions, MAX_QUESTIONS, MAX_ATTEMPTS)

\* a call with the replies the completion service gives to its requests
generate_and_validate_call(call) ==
    [call EXCEPT !.returned =
        Some(generate_and_validate(call.replies, call.past_questions))]

-----------------------------------------------------------------------------
(* Persisting a batch *)

REQUIRED_QUESTIONS == 10
SAVE_LIMIT == 10

SessionEntry(question_id, question_data, theme, number) ==
    [question_id |-> question_id,
     question_text |-> question_data,
     theme |-> theme,
     question_number |-> number]

\* variant: the batch is numbered from 0
save_to_session_from_zero(qs, u, user, valid_questions, theme) ==
    LET n == IF Len(valid_questions) < SAVE_LIMIT
             THEN Len(valid_questions) ELSE SAVE_LIMIT
    IN  [questions |->
             qs \o [i \in 1..n |->
                       NewQuestion(u, theme, valid_questions[i], i - 1)],
         all_questions |->
             [i \in 1..n |->
                 SessionEntry(Len(qs) + i, valid_questions[i], theme, i - 1)],
         user |-> [user EXCEPT !.generate_count = @ + Len(valid_questions)]]

save_to_session(qs, u, user, valid_questions, theme) ==
    LET n == IF Len(valid_questions) < SAVE_LIMIT
             THEN Len(valid_questions) ELSE SAVE_LIMIT
    IN  [questions |->
             qs \o [i \in 1..n |-> NewQuestion(u, theme, valid_questions[i], i)],
         all_questions |->
             [i \in 1..n |->
                 SessionEntry(Len(qs) + i, valid_questions[i], theme, i)],
         user |-> [user EXCEPT !.generate_count = @ + Len(valid_questions)]]

-----------------------------------------------------------------------------
(* The response of the last request, as its client and the completion      *)
(* service saw it                                                          *)

\* theme: the theme or keyword of the request; completion: the replies the
\* completion service had ready for it
Response(op, u, theme, status, llm_calls, completion, question_id, is_first, is_corr) ==
    [op |-> op, user |-> u, theme |-> theme, status |-> status,
     llm_calls |-> llm_calls, completion |-> completion,
     question_id |-> question_id, is_first |-> is_first,
     is_correct |-> is_corr, cause |-> "", context |-> None]

Reply(op, u, theme, status, llm_calls, completion) ==
    Response(op, u, theme, status, llm_calls, completion, 0, FALSE, FALSE)

\* a request that ended early; cause: the exception, or the condition, that
\* ended it
Ended(op, u, theme, status, llm_calls, completion, cause) ==
    [Reply(op, u, theme, status, llm_calls, completion) EXCEPT
        !.cause = cause]

\* a page rendered for question question_id with the context given
Rendered(op, u, theme, question_id, context) ==
    [Reply(op, u, theme, "rendered", 0, <<>>) EXCEPT
        !.question_id = question_id, !.context = Some(context)]

-----------------------------------------------------------------------------
(* Generation requests.  The completion source answers the requests of   *)
(* one call with one of the scripts.                                       *)

HasRoom == Len(questions) + SAVE_LIMIT <= MaxBatches * SAVE_LIMIT

\* variant: the quota is looked at after the questions were generated
generate_from_text_late_gate(u, theme, scripts) ==
    LET gate == can_generate(users[u], today)
    IN  \E replies \in scripts :
        LET made == generate_and_validate(replies,
                        PastQuestions(questions, u, theme))
            counted == update_daily_count(gate.user,
                           Len(made.valid_questions))
            saved == save_to_session(questions, u, counted,
                         made.valid_questions, theme)
        IN  IF ~gate.ok
            THEN /\ users' = [users EXCEPT ![u] = gate.user]
                 /\ last' = Reply("generate_from_text", u, theme, "quota",
                                  made.requests, <<>>)
                 /\ UNCHANGED <<questions, session>>
            ELSE IF Len(made.valid_questions) < REQUIRED_QUESTIONS
            THEN /\ users' = [users EXCEPT ![u] = gate.user]
                 /\ last' = Reply("generate_from_text", u, theme,
                                  "insufficient", made.requests, replies)
                 /\ UNCHANGED <<questions, session>>
            ELSE /\ users' = [users EXCEPT ![u] = saved.user]
                 /\ questions' = saved.questions
                 /\ session' = [session EXCEPT ![u] = saved.all_questions]
                 /\ last' = Reply("generate_from_text", u, theme, "created",
                                  made.requests, replies)

\* variant: the daily count is updated before the batch is validated
generate_from_text_counting_first(u, theme, scripts) ==
    LET gate == can_generate(users[u], today)
    IN  IF ~gate.ok
        THEN /\ users' = [users EXCEPT ![u] = gate.user]
             /\ last' = Reply("generate_from_text", u, theme, "quota", 0,
                              <<>>)
             /\ UNCHANGED <<questions, session>>
        ELSE \E replies \in scripts :
             LET made == generate_and_validate(replies,
                             PastQuestions(questions, u, theme))
                 counted == update_daily_count(gate.user,
                                Len(made.valid_questions))
                 saved == save_to_session(questions, u, counted,
                              made.valid_questions, theme)
             IN  IF Len(made.valid_questions) < REQUIRED_QUESTIONS
                 THEN /\ users' = [users EXCEPT ![u] = counted]
                      /\ last' = Reply("generate_from_text", u, theme,
                                       "insufficient", made.requests,
                                       replies)
                      /\ UNCHANGED <<questions, session>>
                 ELSE /\ users' = [users EXCEPT ![u] = saved.user]
                      /\ questions' = saved.questions
                      /\ session' = [session EXCEPT
                                        ![u] = saved.all_questions]
                      /\ last' = Reply("generate_from_text", u, theme,
                                       "created", made.requests, replies)

\* QuestionGenerationOrchestrator.generate_from_text, called by
\* GenerateQuestionView._handle_text_input
generate_from_text(u, theme, scripts) ==
    LET gate == can_generate(users[u], today)
    IN  IF ~gate.ok
        THEN /\ users' = [users EXCEPT ![u] = gate.user]
             /\ last' = Reply("generate_from_text", u, theme, "quota", 0, <<>>)
             /\ UNCHANGED <<questions, session>>
        ELSE \E replies \in scripts :
             LET made == generate_and_validate(replies,
                             PastQuestions(questions, u, theme))
                 counted == update_daily_count(gate.user,
                                Len(made.valid_questions))
                 saved == save_to_session(questions, u, counted,
                              made.valid_questions, theme)
             IN  IF Len(made.valid_questions) < REQUIRED_QUESTIONS
                 THEN /\ users' = [users EXCEPT ![u] = gate.user]
                      /\ last' = Reply("generate_from_text", u, theme,
                                       "insufficient", made.requests,
                                       replies)
                      /\ UNCHANGED <<questions, session>>
                 ELSE /\ users' = [users EXCEPT ![u] = saved.user]
                      /\ questions' = saved.questions
                      /\ session' = [session EXCEPT
                                        ![u] = saved.all_questions]
                      /\ last' = Reply("generate_from_text", u, theme,
                                       "created", made.requests, replies)

GenerateFromText(u, theme, scripts) ==
    /\ HasRoom
    /\ generate_from_text(u, theme, scripts)
    /\ UNCHANGED <<today, graded, inflight>>

\* SessionMiddleware at the end of a request: the session the view worked on
\* is stored unless the response has status 500
SessionSaved_always(status, stored, in_request) == in_request

SessionSaved(status, stored, in_request) ==
    IF status = "error500" THEN stored ELSE in_request

\* QuestionGenerationOrchestrator.generate_from_text where the database may
\* fail while save_to_session persists the batch: the creation of question
\* number failing raises, with failing = SAVE_LIMIT + 1 it is user.save()
\* that raises, and with failing = 0 nothing raises.  The view answers an
\* exception with status 500.
GenerateFromTextFailing(u, theme, scripts, failing) ==
    LET gate == can_generate(users[u], today)
    IN  /\ HasRoom
        /\ IF ~gate.ok
           THEN /\ users' = [users EXCEPT ![u] = gate.user]
                /\ last' = Reply("generate_from_text", u, theme, "quota", 0,
                                 <<>>)
                /\ UNCHANGED <<questions, session>>
           ELSE \E replies \in scripts :
                LET made == generate_and_validate(replies,
                                PastQuestions(questions, u, theme))
                    counted == update_daily_count(gate.user,
                                   Len(made.valid_questions))
                    saved == save_to_session(questions, u, counted,
                                 IF failing = 0 THEN made.valid_questions
                                 ELSE SubSeq(made.valid_questions, 1,
                                             failing - 1),
                                 theme)
                IN  IF Len(made.valid_questions) < REQUIRED_QUESTIONS
                    THEN /\ users' = [users EXCEPT ![u] = gate.user]
                         /\ last' = Reply("generate_from_text", u, theme,
                                          "insufficient", made.requests,
                                          replies)
                         /\ UNCHANGED <<questions, session>>
                    ELSE /\ users' = [users EXCEPT ![u] =
                                         IF failing = 0 THEN saved.user
                                         ELSE counted]
                         /\ questions' = saved.questions
                         /\ last' = IF failing = 0
                                    THEN Reply("generate_from_text", u, theme,
                                               "created", made.requests,
                                               replies)
                                    ELSE Ended("generate_from_text", u, theme,
                                               "error500", made.requests,
                                               replies, "DatabaseError")
                         /\ session' = [session EXCEPT
                                           ![u] = SessionSaved(last'.status,
                                                      @, saved.all_questions)]
        /\ UNCHANGED <<today, graded, inflight>>

\* an uploaded file: its content type and the first ten characters of the
\* text extracted from it, which become the theme
Files ==
    {[content_type |-> "image/png", theme |-> "t2"],
     [content_type |-> "application/pdf", theme |-> "t2"],
     [content_type |-> "text/plain", theme |-> "t2"]}

process_file_raises(uploaded_file) ==
    uploaded_file.content_type \notin {"image/png", "application/pdf"}

\* variant: the candidates of an upload are compared with the stored questions
generate_from_file_filtering(u, uploaded_file, scripts) ==
    IF process_file_raises(uploaded_file)
    THEN /\ last' = Reply("generate_from_file", u, "", "error500", 0, <<>>)
         /\ UNCHANGED <<users, questions, session>>
    ELSE \E replies \in scripts :
         LET made == generate_and_validate(replies,
                         PastQuestions(questions, u, uploaded_file.theme))
             saved == save_to_session(questions, u, users[u],
                          made.valid_questions, uploaded_file.theme)
         IN  IF Len(made.valid_questions) < REQUIRED_QUESTIONS
             THEN /\ last' = Reply("generate_from_file", u,
                                   uploaded_file.theme, "insufficient",
                                   made.requests, replies)
                  /\ UNCHANGED <<users, questions, session>>
             ELSE /\ users' = [users EXCEPT ![u] = saved.user]
                  /\ questions' = saved.questions
                  /\ session' = [session EXCEPT ![u] = saved.all_questions]
                  /\ last' = Reply("generate_from_file", u,
                                   uploaded_file.theme, "created",
                                   made.requests, replies)

\* QuestionGenerationOrchestrator.generate_from_file, called by
\* GenerateQuestionView._handle_file_upload
generate_from_file(u, uploaded_file, scripts) ==
    IF process_file_raises(uploaded_file)
    THEN /\ last' = Reply("generate_from_file", u, "", "error500", 0, <<>>)
         /\ UNCHANGED <<users, questions, session>>
    ELSE \E replies \in scripts :
         LET made == generate_and_validate(replies, <<>>)
             saved == save_to_session(questions, u, users[u],
                          made.valid_questions, uploaded_file.theme)
         IN  IF Len(made.valid_questions) < REQUIRED_QUESTIONS
             THEN /\ last' = Reply("generate_from_file", u,
                                   uploaded_file.theme, "insufficient",
                                   made.requests, replies)
                  /\ UNCHANGED <<users, questions, session>>
             ELSE /\ users' = [users EXCEPT ![u] = saved.user]
                  /\ questions' = saved.questions
                  /\ session' = [session EXCEPT ![u] = saved.all_questions]
                  /\ last' = Reply("generate_from_file", u,
                                   uploaded_file.theme, "created",
                                   made.requests, replies)

GenerateFromFile(u, uploaded_file, scripts) ==
    /\ HasRoom
    /\ generate_from_file(u, uploaded_file, scripts)
    /\ UNCHANGED <<today, graded, inflight>>

-----------------------------------------------------------------------------
(* Answer requests.  The completion service answers the grading request    *)
(* with one of the sample replies.                                         *)

GradingReplies == {"labelled", "unlabelled"}

GradingText(name) ==
    CASE name = "labelled" ->
             Join(<<CorrectLabel \o <<" ", "(", "A", ")">>,
                    ExplainLabel \o <<" ", "e">>>>, <<NL>>)
      [] name = "unlabelled" ->
             Join(<<<<"A">>, ExplainLabel \o <<"e">>>>, <<NL>>)

UserAnswers == {<<"a">>, <<"B">>}

GradingOf ==
    [name \in GradingReplies |-> check_answer_with_ai(GradingText(name))]
        @@ <<>>

\* AnswerQuestionView.post
answer_question(u, keyword, question_number, is_retry, question_text, question_id, user_answer) ==
    LET data == get_question_data(questions, session, u, keyword,
                    question_number, is_retry, question_text, question_id)
    IN  IF data.raises = "IndexError"
        THEN /\ last' = Ended("answer", u, keyword,
                            IF is_retry THEN "redirect_keyword"
                            ELSE "redirect_generate", 0, <<>>, "IndexError")
             /\ UNCHANGED <<users, questions>>
        ELSE IF data.raises # ""
        THEN /\ last' = Ended("answer", u, keyword, "error500", 0, <<>>,
                            data.raises)
             /\ UNCHANGED <<users, questions>>
        ELSE \E reply \in GradingReplies :
             LET grading == GradingOf[reply]
                 is_corr == is_correct(user_answer, grading.correct_option)
                 updated == update_question(questions, data.id, is_corr,
                                grading.correct_option,
                                grading.explanation_text)
             IN  IF is_correct_raises(user_answer, grading.correct_option)
                 THEN /\ last' = Ended("answer", u, keyword, "error500", 1,
                                       <<reply>>, "AttributeError")
                      /\ UNCHANGED <<users, questions>>
                 ELSE /\ questions' = updated.questions
                      /\ users' = [users EXCEPT
                             ![u] = update_statistics(users[u],
                                        updated.is_first, is_corr)]
                      /\ last' = Response("answer", u, keyword, "answered", 1,
                                     <<reply>>, data.id, updated.is_first,
                                     is_corr)

AnswerQuestion(u, keyword, question_number, is_retry, question_text, question_id, user_answer) ==
    /\ graded < MaxGradings
    /\ answer_question(u, keyword, question_number, is_retry, question_text,
                       question_id, user_answer)
    /\ graded' = IF last'.status = "answered" THEN graded + 1 ELSE graded
    /\ UNCHANGED <<session, today, inflight>>

MaxAnswers == 11

\* AnswerQuestionView.post for a user who answers the questions of the batch
\* one after the other (the first that has no first grading), or retries a
\* question by its id
AnswerNextQuestion(u, is_retry, question_id, user_answer) ==
    LET first_of(n) == questions[session[u][n].question_id].is_correct_first
        next_numbers ==
            {n \in 1..Len(session[u]) :
                /\ first_of(n) = None
                /\ \A m \in 1..(n - 1) : first_of(m) # None}
    IN  /\ graded < MaxAnswers
        /\ \E number \in IF is_retry THEN {1} ELSE next_numbers :
               answer_question(u, "t1", number, is_retry, <<>>, question_id,
                               user_answer)
        /\ graded' = IF last'.status = "answered" THEN graded + 1 ELSE graded
        /\ UNCHANGED <<session, today, inflight>>

-----------------------------------------------------------------------------
(* Views that show a question or its explanation; they write nothing *)

Redirect(is_retry) ==
    IF is_retry THEN "redirect_keyword" ELSE "redirect_generate"

\* QuestionView._handle_request; an exception of get_questions is not caught
question_view(u, keyword, question_number, is_retry, question_text, question_id) ==
    LET all_questions ==
            get_questions(questions, session, u, keyword, is_retry,
                          question_text, question_id)
        current == get_current_question(questions, all_questions,
                       question_number - 1, is_retry, question_id)
    IN  IF all_questions.raises # ""
        THEN Ended("question", u, keyword, "uncaught", 0, <<>>,
                   all_questions.raises)
        ELSE IF Len(all_questions.items) = 0
        THEN Ended("question", u, keyword, Redirect(is_retry), 0, <<>>,
                   "no_questions")
        ELSE IF current.raises # ""
        THEN Ended("question", u, keyword, Redirect(is_retry), 0, <<>>,
                   current.raises)
        ELSE Rendered("question", u, keyword, current.id,
                      [total_questions |-> Len(all_questions.items)])

QuestionViewed(u, keyword, question_number, is_retry, question_text, question_id) ==
    /\ last' = question_view(u, keyword, question_number, is_retry,
                             question_text, question_id)
    /\ UNCHANGED <<users, questions, session, today, graded, inflight>>

\* Question.objects.get(id=question_id, user=user): the exception it raises
get_raises(qs, u, question_id) ==
    IF question_id.kind # "num" THEN "ValueError"
    ELSE IF question_id.n \notin 1..Len(qs) THEN "DoesNotExist"
    ELSE IF qs[question_id.n].user # u THEN "DoesNotExist"
    ELSE ""

\* 'not question.explanation': None and the empty text alike
no_explanation(question) ==
    question.explanation = None \/ Val(question.explanation) = <<>>

build_context_latest(qs, id, keyword, question_number, is_retry) ==
    LET question == qs[id]
    IN  [question |-> question.question_text,
         keyword |-> keyword,
         question_number |-> question_number,
         total_questions |-> 1,
         has_next |-> FALSE,
         next_number |-> question_number + 1,
         is_correct |-> IF question.is_correct # None
                        THEN question.is_correct
                        ELSE question.is_correct_first,
         question_id |-> id,
         explanation |-> question.explanation,
         correct_option |-> question.correct_option,
         is_retry |-> IF is_retry THEN "True" ELSE "",
         show_back_link |-> FALSE,
         show_user_answer |-> FALSE,
         show_images |-> FALSE,
         show_next_button |-> FALSE]

\* ExplanationContextBuilder.build_context
build_context(qs, id, keyword, question_number, is_retry) ==
    LET question == qs[id]
    IN  [question |-> question.question_text,
         keyword |-> keyword,
         question_number |-> question_number,
         total_questions |-> 1,
         has_next |-> FALSE,
         next_number |-> question_number + 1,
         is_correct |-> IF question.is_correct_first # None
                        THEN question.is_correct_first
                        ELSE question.is_correct,
         question_id |-> id,
         explanation |-> question.explanation,
         correct_option |-> question.correct_option,
         is_retry |-> IF is_retry THEN "True" ELSE "",
         show_back_link |-> FALSE,
         show_user_answer |-> FALSE,
         show_images |-> FALSE,
         show_next_button |-> FALSE]

\* ExplanationView.post
explanation_view(u, keyword, question_number, question_id, is_retry) ==
    LET raises == get_raises(questions, u, question_id)
    IN  IF raises = "DoesNotExist"
        THEN Ended("explanation", u, keyword, "error404", 0, <<>>, raises)
        ELSE IF raises # ""
        THEN Ended("explanation", u, keyword, "error400", 0, <<>>, raises)
        ELSE IF no_explanation(questions[question_id.n])
        THEN Ended("explanation", u, keyword, "error400", 0, <<>>,
                   "no_explanation")
        ELSE Rendered("explanation", u, keyword, question_id.n,
                      build_context(questions, question_id.n, keyword,
                                    question_number, is_retry))

ExplanationViewed(u, keyword, question_number, question_id, is_retry) ==
    /\ last' = explanation_view(u, keyword, question_number, question_id,
                                is_retry)
    /\ UNCHANGED <<users, questions, session, today, graded, inflight>>

-----------------------------------------------------------------------------
(* Cleaning of a question text for the listing of a keyword.  "MON" and    *)
(* "DAI" stand for the two characters of the word the numbering starts      *)
(* with, "QM" for the full-width question mark and "MARU" for the           *)
(* full-width period.                                                       *)

\* the texts of at most n characters over a set of characters
TextsOver(chars, n) == UNION {[1..k -> chars] : k \in 0..n}

\* the character class of the pattern that matches the numbering
NumberingChars ==
    {"MON", "DAI", ":", ".", "0", "1", "2", "3", "4", "5", "6", "7", "8", "9"}

\* re.sub of the leading run of NumberingChars by the empty string
RECURSIVE RemoveNumbering(_)
RemoveNumbering(s) ==
    IF s # <<>> /\ Head(s) \in NumberingChars
    THEN RemoveNumbering(Tail(s))
    ELSE s

clean_question_text(text) ==
    LET cleaned_text == Strip(RemoveNumbering(text))
    IN  IF Contains(cleaned_text, <<"QM">>)
        THEN Strip(Split(cleaned_text, <<"QM">>)[1]) \o <<"QM">>
        ELSE IF Contains(cleaned_text, <<"MARU">>)
        THEN Strip(Split(cleaned_text, <<"MARU">>)[1]) \o <<"QM">>
        ELSE cleaned_text

\* a call of a function that is given to it, and the call it returned from
Given(call) ==
    [Reply("call", "u1", "", "given", 0, <<>>) EXCEPT !.context = Some(call)]

Returned(op, call) ==
    [Reply(op, "u1", "", "returned", 0, <<>>) EXCEPT !.context = Some(call)]

\* str.index: the position of the first occurrence, 0 when there is none
\* (str.index raises ValueError then)
Index(line, c) == IF Contains(line, c) THEN Min(Find(line, c)) ELSE 0

\* one step of the loop over the later lines: the option of the line, the
\* empty sequence for a line that is skipped
OptionsOfLine(line) ==
    IF StartsWith(Strip(line), <<"(">>) /\ Contains(line, <<")">>)
    THEN LET close == Index(line, <<")">>)
         IN  <<[letter |-> RemoveAll(Strip(SubSeq(line, 2, close - 1)),
                                     {<<"(">>, <<")">>}),
                text |-> Strip(SubSeq(line, close + 1, Len(line)))]>>
    ELSE <<>>

RaisesOfLine(line) ==
    StartsWith(Strip(line), <<"(">>) /\ Contains(line, <<")">>)
        /\ Index(line, <<")">>) = 0

RaisesOfLine_unguarded(line) ==
    StartsWith(Strip(line), <<"(">>) /\ Index(line, <<")">>) = 0

RECURSIVE OptionsOfLines(_)
OptionsOfLines(lines) ==
    IF lines = <<>> THEN <<>>
    ELSE OptionsOfLine(Head(lines)) \o OptionsOfLines(Tail(lines))

parse_question_unguarded(question_text) ==
    LET lines == Split(question_text, <<NL>>)
    IN  IF \E k \in 2..Len(lines) : RaisesOfLine_unguarded(lines[k])
        THEN [raises |-> "ValueError", main_question |-> <<>>,
              options |-> <<>>]
        ELSE [raises |-> "", main_question |-> lines[1],
              options |-> OptionsOfLines(Tail(lines))]

parse_question(question_text) ==
    LET lines == Split(question_text, <<NL>>)
    IN  IF \E k \in 2..Len(lines) : RaisesOfLine(lines[k])
        THEN [raises |-> "ValueError", main_question |-> <<>>,
              options |-> <<>>]
        ELSE [raises |-> "", main_question |-> lines[1],
              options |-> OptionsOfLines(Tail(lines))]

Parsed ==
    /\ last.op = "call"
    /\ last' = Returned("parse_question",
                        [Val(last.context) EXCEPT
                            !.returned =
                                Some(parse_question(Val(last.context).text))])
    /\ UNCHANGED <<users, questions, session, today, graded, inflight>>

Cleaned ==
    /\ last.op = "call"
    /\ last' = Returned("clean_question_text",
                        [Val(last.context) EXCEPT
                            !.returned =
                                Some(clean_question_text(
                                         Val(last.context).text))])
    /\ UNCHANGED <<users, questions, session, today, graded, inflight>>

SimilarityChecked ==
    /\ last.op = "call"
    /\ last' = Returned("is_similar", is_similar_call(Val(last.context)))
    /\ UNCHANGED <<users, questions, session, today, graded, inflight>>

LoopRun ==
    /\ last.op = "call"
    /\ last' = Returned("generate_and_validate",
                        generate_and_validate_call(Val(last.context)))
    /\ UNCHANGED <<users, questions, session, today, graded, inflight>>

-----------------------------------------------------------------------------
(* Premium changes and the clock *)

\* customer_id is None when the caller passes no customer id
set_premium(user, customer_id) ==
    [user EXCEPT !.is_premium = TRUE,
                 !.stripe_customer_id =
                     IF customer_id # None THEN customer_id ELSE @]

remove_premium(user) == [user EXCEPT !.is_premium = FALSE]

PremiumGranted(u) ==
    /\ users' = [users EXCEPT ![u] = set_premium(users[u], None)]
    /\ last' = Reply("webhook", u, "", "ok", 0, <<>>)
    /\ UNCHANGED <<questions, session, today, graded, inflight>>

PremiumRevoked(u) ==
    /\ users' = [users EXCEPT ![u] = remove_premium(users[u])]
    /\ last' = Reply("webhook", u, "", "ok", 0, <<>>)
    /\ UNCHANGED <<questions, session, today, graded, inflight>>

\* timezone.now().date() moves to the next UTC date
NextDay ==
    /\ today < MaxDay
    /\ today' = today + 1
    /\ UNCHANGED <<users, questions, session, graded, last, inflight>>

\* IndexView.get
IndexViewed(u) ==
    /\ last' = Rendered("index", u, "", 0,
                        [daily_generated_count |->
                             users[u].daily_generated_count,
                         is_premium |-> users[u].is_premium])
    /\ UNCHANGED <<users, questions, session, today, graded, inflight>>

\* a call of update_not_answered_count for a user
NotAnsweredCounted(u) ==
    /\ users' = [users EXCEPT
                     ![u] = update_not_answered_count(questions, u, users[u])]
    /\ last' = Reply("update_not_answered_count", u, "", "ok", 0, <<>>)
    /\ UNCHANGED <<questions, session, today, graded, inflight>>

-----------------------------------------------------------------------------
(* The Stripe webhook.  A user's e-mail address is the user's name.  The    *)
(* Subscription rows are created by get_or_create(user=user) only, so a     *)
(* user has at most one; it is kept in the user's row.                      *)

\* the customers of the payment service and the e-mail address each was
\* created with: create_session opens every checkout with the e-mail
\* address of the user who starts it; "cus_4" belongs to no user
Customers == {"cus_1", "cus_2", "cus_3", "cus_4"}

CustomerEmail ==
    [c \in Customers |->
        CASE c = "cus_1" -> "u1"
          [] c = "cus_2" -> "u2"
          [] c = "cus_3" -> "u1"
          [] OTHER -> "nobody"]

\* plan is what stripe.Subscription.retrieve leads to: None when the call
\* raises, else the plan of the price
Event(type, customer_email, customer, subscription, plan) ==
    [type |-> type, customer_email |-> customer_email, customer |-> customer,
     subscription |-> subscription, plan |-> plan]

\* completed checkouts, deleted subscriptions, paid invoices and events of
\* a type the view has no branch for
Events ==
    LET subscriptions == {None, Some("sub_1")}
        plans == {None, Some("basic"), Some("premium")}
    IN  UNION {{Event("checkout.session.completed", e, Some(c), s, p) :
                    e \in {None, Some(CustomerEmail[c])},
                    s \in subscriptions, p \in plans}
               \cup {Event("customer.subscription.deleted", None, Some(c),
                           Some("sub_1"), None),
                     Event("invoice.payment_succeeded", None, Some(c), None,
                           None),
                     Event("customer.created", Some(CustomerEmail[c]),
                           Some(c), None, None)} :
               c \in Customers}
        \cup {Event("invoice.payment_succeeded", None, None, None, None)}

\* what construct_event does with the payload and its signature header
Verifications == {"verified", "ValueError", "SignatureVerificationError"}

verify_signature(verification, event) ==
    IF verification = "verified"
    THEN [event |-> Some(event), error |-> None]
    ELSE [event |-> None, error |-> Some(verification)]

\* the users a lookup finds: get returns the user when there is one, raises
\* DoesNotExist when there is none and MultipleObjectsReturned otherwise
get_user_by_email(us, email) == {u \in Users : u = email}

get_user_by_customer_id(us, customer_id) ==
    {u \in Users :
        /\ us[u].subscription # None
        /\ Val(us[u].subscription).stripe_customer_id = customer_id}

create_or_update_subscription(user, customer_id, subscription_id, plan) ==
    [user EXCEPT !.subscription =
        Some([stripe_customer_id |-> customer_id,
              stripe_subscription_id |-> subscription_id,
              active |-> TRUE,
              plan |-> plan])]

\* a handler returns the rows it leaves and the exception it ends with
Handled(us, raises) == [users |-> us, raises |-> raises]

handle_checkout_session_without_premium(us, checkout) ==
    IF checkout.customer_email = None THEN Handled(us, "")
    ELSE LET found == get_user_by_email(us, Val(checkout.customer_email)) IN
         IF found = {} THEN Handled(us, "")
         ELSE IF Cardinality(found) > 1
              THEN Handled(us, "MultipleObjectsReturned")
         ELSE IF checkout.subscription = None THEN Handled(us, "")
         ELSE IF checkout.plan = None THEN Handled(us, "StripeError")
         ELSE LET u == CHOOSE v \in found : TRUE
                  subscribed ==
                      create_or_update_subscription(us[u], checkout.customer,
                          Val(checkout.subscription), Val(checkout.plan))
                  referenced ==
                      [subscribed EXCEPT
                          !.stripe_customer_id = checkout.customer]
              IN  Handled([us EXCEPT ![u] = referenced], "")

handle_checkout_session(us, checkout) ==
    IF checkout.customer_email = None THEN Handled(us, "")
    ELSE LET found == get_user_by_email(us, Val(checkout.customer_email)) IN
         IF found = {} THEN Handled(us, "")
         ELSE IF Cardinality(found) > 1
              THEN Handled(us, "MultipleObjectsReturned")
         ELSE IF checkout.subscription = None THEN Handled(us, "")
         ELSE IF checkout.plan = None THEN Handled(us, "StripeError")
         ELSE LET u == CHOOSE v \in found : TRUE
                  subscribed ==
                      create_or_update_subscription(us[u], checkout.customer,
                          Val(checkout.subscription), Val(checkout.plan))
                  referenced ==
                      [subscribed EXCEPT
                          !.stripe_customer_id = checkout.customer]
              IN  Handled([us EXCEPT ![u] = set_premium(referenced, None)],
                          "")

handle_subscription_deleted(us, subscription) ==
    LET found == get_user_by_customer_id(us, subscription.customer) IN
    IF found = {} THEN Handled(us, "")
    ELSE IF Cardinality(found) > 1
         THEN Handled(us, "MultipleObjectsReturned")
    ELSE LET u == CHOOSE v \in found : TRUE
         IN  Handled([us EXCEPT ![u] = remove_premium(us[u])], "")

handle_invoice_payment_succeeded(us, invoice) ==
    IF invoice.customer = None THEN Handled(us, "")
    ELSE LET found == get_user_by_customer_id(us, invoice.customer) IN
         IF found = {} THEN Handled(us, "")
         ELSE IF Cardinality(found) > 1
              THEN Handled(us, "MultipleObjectsReturned")
         ELSE LET u == CHOOSE v \in found : TRUE
              IN  Handled([us EXCEPT
                      ![u] = set_premium(us[u], invoice.customer)], "")

Dispatch(us, event) ==
    IF event.type = "checkout.session.completed"
    THEN handle_checkout_session(us, event)
    ELSE IF event.type = "customer.subscription.deleted"
    THEN handle_subscription_deleted(us, event)
    ELSE IF event.type = "invoice.payment_succeeded"
    THEN handle_invoice_payment_succeeded(us, event)
    ELSE Handled(us, "")

\* the response carries the event the request held as its context
WebhookResponse(status, cause, event) ==
    [Ended("stripe_webhook", "", event.type, status, 0, <<>>, cause) EXCEPT
        !.context = Some(event)]

webhook_post_unverified(us, verification, event) ==
    LET handled == Dispatch(us, event) IN
    IF handled.raises # ""
    THEN [users |-> handled.users,
          response |-> WebhookResponse("uncaught", handled.raises, event)]
    ELSE IF verification # "verified"
    THEN [users |-> handled.users,
          response |-> WebhookResponse("400", verification, event)]
    ELSE [users |-> handled.users,
          response |-> WebhookResponse("200", "", event)]

webhook_post(us, verification, event) ==
    LET verified == verify_signature(verification, event) IN
    IF verified.error # None
    THEN [users |-> us,
          response |-> WebhookResponse("400", Val(verified.error), event)]
    ELSE LET handled == Dispatch(us, Val(verified.event)) IN
         IF handled.raises # ""
         THEN [users |-> handled.users,
               response |->
                   WebhookResponse("uncaught", handled.raises, event)]
         ELSE [users |-> handled.users,
               response |-> WebhookResponse("200", "", event)]

WebhookPosted(verification, event) ==
    /\ users' = webhook_post(users, verification, event).users
    /\ last' = webhook_post(users, verification, event).response
    /\ UNCHANGED <<questions, session, today, graded, inflight>>

-----------------------------------------------------------------------------
(* Requests handled at the same time.  A request loads request.user when   *)
(* it starts and keeps that object until its response; user.save() and     *)
(* question.save() write every field of the object.                        *)

Requests == {"r1", "r2"}

\* a worker that handles no request
Idle ==
    [phase |-> "idle", op |-> "none", user |-> "u1", row |-> NewUser,
     theme |-> "", question_id |-> 0, question |-> None,
     user_answer |-> <<>>]

\* variant: the user is read again when the request writes it
request_user_refreshed(r) == users[inflight[r].user]

\* request.user of the request a worker handles
request_user(r) == inflight[r].row

\* GenerateQuestionView._handle_text_input up to the quota check:
\* request.user is loaded and can_generate saves it when it resets the count
GenerateStarted(r, u, theme) ==
    LET gate == can_generate(users[u], today)
    IN  /\ inflight[r].phase = "idle"
        /\ Len(questions)
               + SAVE_LIMIT * (1 + Cardinality({w \in Requests :
                                      inflight[w].op = "generate"}))
             <= MaxBatches * SAVE_LIMIT
        /\ users' = [users EXCEPT ![u] = gate.user]
        /\ IF gate.ok
           THEN /\ inflight' = [inflight EXCEPT
                                   ![r] = [Idle EXCEPT !.phase = "loaded",
                                                       !.op = "generate",
                                                       !.user = u,
                                                       !.row = gate.user,
                                                       !.theme = theme]]
                /\ UNCHANGED last
           ELSE /\ last' = Reply("generate_from_text", u, theme, "quota", 0,
                                 <<>>)
                /\ UNCHANGED inflight
        /\ UNCHANGED <<questions, session, today, graded>>

\* the rest of generate_from_text: generation, update_daily_count and
\* save_to_session on the user object of the request
GenerateFinished(r, scripts) ==
    LET u == inflight[r].user
        theme == inflight[r].theme
    IN  /\ inflight[r].phase = "loaded"
        /\ inflight[r].op = "generate"
        /\ \E replies \in scripts :
               LET made == generate_and_validate(replies,
                               PastQuestions(questions, u, theme))
                   counted == update_daily_count(request_user(r),
                                  Len(made.valid_questions))
                   saved == save_to_session(questions, u, counted,
                                made.valid_questions, theme)
               IN  IF Len(made.valid_questions) < REQUIRED_QUESTIONS
                   THEN /\ last' = Reply("generate_from_text", u, theme,
                                         "insufficient", made.requests,
                                         replies)
                        /\ UNCHANGED <<users, questions, session>>
                   ELSE /\ users' = [users EXCEPT ![u] = saved.user]
                        /\ questions' = saved.questions
                        /\ session' = [session EXCEPT
                                          ![u] = saved.all_questions]
                        /\ last' = Reply("generate_from_text", u, theme,
                                         "created", made.requests, replies)
        /\ inflight' = [inflight EXCEPT ![r] = Idle]
        /\ UNCHANGED <<today, graded>>

\* AnswerQuestionView.post up to the grading: request.user is loaded and
\* _get_question_data finds the question of the session
AnswerStarted(r, u, keyword, question_number, user_answer) ==
    LET data == get_question_data(questions, session, u, keyword,
                    question_number, FALSE, <<>>, NoId)
    IN  /\ inflight[r].phase = "idle"
        /\ graded + Cardinality({w \in Requests :
                                   inflight[w].op = "answer"}) < MaxGradings
        /\ IF data.raises # ""
           THEN /\ last' = Ended("answer", u, keyword, "redirect_generate", 0,
                                 <<>>, data.raises)
                /\ UNCHANGED inflight
           ELSE /\ inflight' = [inflight EXCEPT
                                   ![r] = [Idle EXCEPT
                                              !.phase = "loaded",
                                              !.op = "answer",
                                              !.user = u,
                                              !.row = users[u],
                                              !.theme = keyword,
                                              !.question_id = data.id,
                                              !.user_answer = user_answer]]
                /\ UNCHANGED last
        /\ UNCHANGED <<users, questions, session, today, graded>>

\* update_question: question = Question.objects.get(id=question_id)
QuestionRead(r) ==
    /\ inflight[r].phase = "loaded"
    /\ inflight[r].op = "answer"
    /\ inflight' = [inflight EXCEPT
                       ![r].phase = "read",
                       ![r].question = Some(questions[inflight[r].question_id])]
    /\ UNCHANGED <<users, questions, session, today, graded, last>>

\* the rest of update_question, on the question object that was read, and
\* update_statistics on the user object of the request
AnswerFinished(r) ==
    LET u == inflight[r].user
        question_id == inflight[r].question_id
        user_answer == inflight[r].user_answer
        read == [questions EXCEPT ![question_id] = Val(inflight[r].question)]
    IN  /\ inflight[r].phase = "read"
        /\ \E reply \in GradingReplies :
               LET grading == GradingOf[reply]
                   is_corr == is_correct(user_answer, grading.correct_option)
                   updated == update_question(read, question_id, is_corr,
                                  grading.correct_option,
                                  grading.explanation_text)
               IN  IF is_correct_raises(user_answer, grading.correct_option)
                   THEN /\ last' = Ended("answer", u, inflight[r].theme,
                                         "error500", 1, <<reply>>,
                                         "AttributeError")
                        /\ UNCHANGED <<users, questions, graded>>
                   ELSE /\ questions' =
                               [questions EXCEPT
                                   ![question_id] =
                                       updated.questions[question_id]]
                        /\ users' = [users EXCEPT
                               ![u] = update_statistics(request_user(r),
                                          updated.is_first, is_corr)]
                        /\ last' = Response("answer", u, inflight[r].theme,
                                       "answered", 1, <<reply>>, question_id,
                                       updated.is_first, is_corr)
                        /\ graded' = graded + 1
        /\ inflight' = [inflight EXCEPT ![r] = Idle]
        /\ UNCHANGED <<session, today>>

-----------------------------------------------------------------------------
(* The system *)

QuestionNumbers == {1, 11}
RetryIds == {BadId, NumId(2), NumId(99)}
RetryTexts == {<<>>, Stem("x", 1)}

Init ==
    /\ users = [u \in Users |-> NewUser]
    /\ questions = <<>>
    /\ session = [u \in Users |-> <<>>]
    /\ today = 1
    /\ graded = 0
    /\ inflight = [r \in Requests |-> Idle]
    /\ last = Reply("none", "u1", "", "none", 0, <<>>)

Answers ==
    \/ \E u \in Users, number \in QuestionNumbers, user_answer \in UserAnswers :
           AnswerQuestion(u, "t1", number, FALSE, <<>>, NoId, user_answer)
    \/ \E u \in Users, question_id \in RetryIds, user_answer \in UserAnswers :
           AnswerQuestion(u, "t1", 1, TRUE, <<>>, question_id, user_answer)
    \/ \E u \in Users, question_text \in RetryTexts,
          user_answer \in UserAnswers :
           AnswerQuestion(u, "t1", 1, TRUE, question_text, NoId, user_answer)

\* the user whose requests take every input, and the other users
Active == {"u1"}
Others == Users \ Active

\* a completion source that yields a whole batch with its first reply
DirectScripts == {<<"full_x", "empty", "empty", "empty", "empty">>}

\* generation requests, premium changes and the clock
SpecGeneration ==
    Init /\ [][\/ \E u \in Active : GenerateFromText(u, "t1", Scripts)
               \/ \E u \in Others : GenerateFromText(u, "t1", DirectScripts)
               \/ \E u \in Active, uploaded_file \in Files :
                      GenerateFromFile(u, uploaded_file, Scripts)
               \/ \E u \in Active : PremiumGranted(u)
               \/ \E u \in Active : PremiumRevoked(u)
               \/ NextDay]_vars

GradingFiles == {[content_type |-> "application/pdf", theme |-> "t2"]}

\* generation requests that succeed at the first reply, and answer requests
SpecGrading ==
    Init /\ [][\/ \E u \in Users : GenerateFromText(u, "t1", DirectScripts)
               \/ \E u \in Active, uploaded_file \in GradingFiles :
                      GenerateFromFile(u, uploaded_file, DirectScripts)
               \/ Answers]_vars

ExplanationIds == {NoId, NumId(1), NumId(2), NumId(99)}

\* topic requests that succeed at once, answers to the session's questions,
\* and the views of a question and of its explanation
SpecViewing ==
    Init /\ [][\/ \E u \in Users : GenerateFromText(u, "t1", DirectScripts)
               \/ \E u \in Users, number \in QuestionNumbers,
                     user_answer \in UserAnswers :
                      AnswerQuestion(u, "t1", number, FALSE, <<>>, NoId, user_answer)
               \/ \E u \in Users, number \in QuestionNumbers :
                      QuestionViewed(u, "t1", number, FALSE, <<>>, NoId)
               \/ \E u \in Users, number \in QuestionNumbers,
                     question_id \in RetryIds \cup {NoId} :
                      QuestionViewed(u, "t1", number, TRUE, <<>>, question_id)
               \/ \E u \in Users, question_id \in ExplanationIds,
                     is_retry \in BOOLEAN :
                      ExplanationViewed(u, "t1", 1, question_id, is_retry)]_vars

\* topic requests that succeed at once, answers to the session's questions
\* and recounts of the questions not answered
SpecCounting ==
    Init /\ [][\/ \E u \in Users : GenerateFromText(u, "t1", DirectScripts)
               \/ \E u \in Users, number \in QuestionNumbers,
                     user_answer \in UserAnswers :
                      AnswerQuestion(u, "t1", number, FALSE, <<>>, NoId, user_answer)
               \/ \E u \in Users : NotAnsweredCounted(u)]_vars

\* the state in which a function is called with arguments drawn from a set
InitWith(calls) ==
    /\ users = [u \in Users |-> NewUser]
    /\ questions = <<>>
    /\ session = [u \in Users |-> <<>>]
    /\ today = 1
    /\ graded = 0
    /\ inflight = [r \in Requests |-> Idle]
    /\ \E call \in calls : last = Given(call)

TextCalls(chars, n) ==
    {[text |-> text, returned |-> None] : text \in TextsOver(chars, n)}

SpecCleaning ==
    InitWith(TextCalls({"1", "MON", " ", "a", "QM", "MARU"}, MaxTextLen))
        /\ [][Cleaned]_vars

SpecParsing ==
    InitWith(TextCalls({NL, "(", ")", " ", "A"}, MaxParseLen))
        /\ [][Parsed]_vars

\* texts whose ratios are 0, 2/5, 1/2, 4/5 and 1
SimilarityTexts ==
    {<<>>, <<"a", "b">>, <<"a", "c", "d">>, <<"a", "b", "c">>, <<"x">>}

SpecSimilarity ==
    InitWith({[new_question |-> new_question, past_questions |-> past_texts,
               returned |-> None] :
                 new_question \in SimilarityTexts,
                 past_texts \in TextsOver(SimilarityTexts, MaxPast)})
        /\ [][SimilarityChecked]_vars

\* no past question, or the questions stored from a whole batch
PastChoices == {<<>>, SubSeq(BlocksOfReply["full_x"], 1, SAVE_LIMIT)}

SpecLoop ==
    InitWith({[replies |-> replies, past_questions |-> past_questions,
               returned |-> None] :
                 replies \in [1..MAX_ATTEMPTS -> ReplyNames],
                 past_questions \in PastChoices})
        /\ [][LoopRun]_vars

\* requests that succeed at the first reply, where the database may fail
\* while a topic request persists its batch
SpecPersisting ==
    Init /\ [][\/ \E u \in Users, theme \in {"t1", "t3"},
                     failing \in {0, 1, 5, SAVE_LIMIT + 1} :
                      GenerateFromTextFailing(u, theme, DirectScripts,
                                              failing)
               \/ \E u \in Active, uploaded_file \in GradingFiles :
                      GenerateFromFile(u, uploaded_file, DirectScripts)
               \/ NextDay]_vars

\* topic requests that succeed at once, the index page, premium changes and
\* the clock
SpecIndex ==
    Init /\ [][\/ \E u \in Users : GenerateFromText(u, "t1", DirectScripts)
               \/ \E u \in Users : IndexViewed(u)
               \/ \E u \in Active : PremiumGranted(u)
               \/ \E u \in Active : PremiumRevoked(u)
               \/ NextDay]_vars

\* topic requests that succeed at once and a user who answers a batch in
\* order and retries a question by its id
SpecStatistics ==
    Init /\ [][\/ \E u \in Users : GenerateFromText(u, "t1", DirectScripts)
               \/ \E u \in Others : AnswerNextQuestion(u, FALSE, NoId, <<"a">>)
               \/ \E u \in Others :
                      AnswerNextQuestion(u, TRUE, NumId(2), <<"a">>)]_vars

\* two workers that handle topic requests, one for each of two themes, and
\* answers of one user, and a webhook that makes the user premium
SpecConcurrent ==
    Init /\ [][\/ \E u \in Active : GenerateStarted("r1", u, "t1")
               \/ \E u \in Active : GenerateStarted("r2", u, "t3")
               \/ \E r \in Requests : GenerateFinished(r, DirectScripts)
               \/ \E r \in Requests, u \in Active, number \in {1, 2} :
                      AnswerStarted(r, u, "t1", number, <<"a">>)
               \/ \E r \in Requests : QuestionRead(r)
               \/ \E r \in Requests : AnswerFinished(r)
               \/ \E u \in Active : PremiumGranted(u)]_vars

\* webhook requests of the payment service, verified or not
SpecWebhook ==
    Init /\ [][\E verification \in Verifications, event \in Events :
                    WebhookPosted(verification, event)]_vars

-----------------------------------------------------------------------------
(* Properties of grading *)

Booleans == {Some(TRUE), Some(FALSE)}

\* a step in which an answer request graded a question
Graded == graded' = graded + 1

\* C1: is_correct_first is write-once: the grading call that finds it unset
\* sets it to a boolean, and no later step, whatever the result of a later
\* grading, changes the value it holds.
C1_FirstFlagWriteOnce ==
    [][/\ \A q \in QuestionIds :
              questions[q].is_correct_first # None
                  => questions'[q].is_correct_first
                         = questions[q].is_correct_first
       /\ Graded =>
              LET q == last'.question_id
              IN  /\ questions'[q].is_correct_first \in Booleans
                  /\ questions[q].is_correct_first = None
                         => questions'[q].is_correct_first
                                = Some(last'.is_correct)]_vars

\* a question was graded wrong after it had been graded right the first time
C1_Witness ==
    /\ last.status = "answered"
    /\ ~last.is_correct
    /\ questions[last.question_id].is_correct_first = Some(TRUE)
    /\ questions[last.question_id].is_correct = Some(FALSE)

\* C2: a grading call that finds is_correct_first unset sets it, leaves
\* is_correct as it was (unset) and returns is_first = TRUE; any other grading
\* call sets is_correct, leaves is_correct_first as it was and returns
\* is_first = FALSE; no other question's flags change.
C2_OneFlagPerGrading ==
    [][Graded =>
          LET q == last'.question_id
              before == questions[q]
              after == questions'[q]
          IN  /\ IF before.is_correct_first = None
                 THEN /\ after.is_correct_first = Some(last'.is_correct)
                      /\ after.is_correct = before.is_correct
                      /\ after.is_correct = None
                      /\ last'.is_first
                 ELSE /\ after.is_correct = Some(last'.is_correct)
                      /\ after.is_correct_first = before.is_correct_first
                      /\ ~last'.is_first
              /\ \A other \in QuestionIds \ {q} :
                     questions'[other] = questions[other]]_vars

\* the second grading of a question, right after a wrong first attempt
C2_Witness ==
    /\ last.status = "answered"
    /\ ~last.is_first
    /\ last.is_correct
    /\ graded = 2
    /\ questions[last.question_id].is_correct_first = Some(FALSE)
    /\ questions[last.question_id].is_correct = Some(TRUE)

RECURSIVE SumCorrect(_)
SumCorrect(S) ==
    IF S = {} THEN 0
    ELSE LET u == CHOOSE x \in S : TRUE
         IN  users[u].correct_count + SumCorrect(S \ {u})

\* C3: a grading adds exactly 1 to the submitting user's correct_count when
\* it was a first attempt and correct, and leaves every correct_count as it
\* was otherwise; the correct_counts together never exceed the number of
\* questions whose first attempt was correct.
C3_CountedOncePerQuestion ==
    /\ [][Graded =>
             \A u \in Users :
                 users'[u].correct_count =
                     IF u = last'.user /\ last'.is_first /\ last'.is_correct
                     THEN users[u].correct_count + 1
                     ELSE users[u].correct_count]_vars
    /\ [](SumCorrect(Users) =
             Cardinality({q \in QuestionIds :
                             questions[q].is_correct_first = Some(TRUE)}))

\* a correct retry of a question whose first attempt was correct and counted
C3_Witness ==
    /\ last.status = "answered"
    /\ ~last.is_first
    /\ last.is_correct
    /\ questions[last.question_id].is_correct_first = Some(TRUE)
    /\ users[last.user].correct_count = 1

-----------------------------------------------------------------------------
(* Properties of generation *)

\* a step in which user u's topic request, or file upload, was handled
TopicStep(u) ==
    /\ today' = today
    /\ last'.op = "generate_from_text"
    /\ last'.user = u

FileStep(u) ==
    /\ today' = today
    /\ last'.op = "generate_from_file"
    /\ last'.user = u

\* the daily count the quota check works with: 0 when the stored date is not
\* today's
CountOfToday(user) ==
    IF user.last_generated_date # Some(today)
    THEN 0
    ELSE user.daily_generated_count

\* the past questions the request's candidates are compared with
PastOf(u) ==
    IF last'.op = "generate_from_text"
    THEN PastQuestions(questions, u, last'.theme)
    ELSE <<>>

\* C4: the quota check passes a premium user and leaves the quota fields as
\* they were; for any other user it stores today's date, with a count of 0 if
\* the stored date was another day's, and then refuses iff the count is 10 or
\* more; the stored reset stays when the request is refused or fails.
C4_QuotaCheck ==
    [][\A u \in Users : TopicStep(u) =>
          LET before == users[u]
              after == users'[u]
              refused == last'.status = "quota"
          IN  IF before.is_premium
              THEN /\ ~refused
                   /\ after.last_generated_date = before.last_generated_date
                   /\ after.daily_generated_count
                          = before.daily_generated_count
              ELSE /\ refused <=> CountOfToday(before) >= 10
                   /\ after.last_generated_date = Some(today)
                   /\ last'.status \in {"quota", "insufficient"}
                          => after.daily_generated_count
                                 = CountOfToday(before)]_vars

\* on the day after a batch, the count was reset and the request went on to
\* the completion service, where it failed
C4_Witness ==
    /\ last.op = "generate_from_text"
    /\ last.status = "insufficient"
    /\ today = 2
    /\ ~users[last.user].is_premium
    /\ users[last.user].generate_count = 10
    /\ users[last.user].last_generated_date = Some(2)
    /\ users[last.user].daily_generated_count = 0

\* C5: a topic request is refused exactly when the quota check fails, and a
\* refused request has made no completion request, created no question and
\* left the session batch and the user's row as they were.
C5_RefusalDoesNothing ==
    [][\A u \in Users : TopicStep(u) =>
          /\ last'.status = "quota" <=> ~can_generate(users[u], today).ok
          /\ last'.status = "quota" =>
                 /\ last'.llm_calls = 0
                 /\ questions' = questions
                 /\ session' = session
                 /\ users'[u].generate_count = users[u].generate_count
                 /\ users'[u].daily_generated_count
                        = users[u].daily_generated_count]_vars

\* a user who holds a batch made today is refused
C5_Witness ==
    /\ last.op = "generate_from_text"
    /\ last.status = "quota"
    /\ today = 1
    /\ session[last.user] # <<>>
    /\ users[last.user].daily_generated_count = 10
    /\ users[last.user].generate_count = 10

\* C6: a topic or file request whose completions yield fewer than 10 accepted
\* candidates ends, after 5 completion requests, with the retry message; it
\* creates no question, keeps the session batch and generate_count, and does
\* not raise daily_generated_count.
C6_InsufficientPersistsNothing ==
    [][\A u \in Users : (TopicStep(u) \/ FileStep(u)) =>
          LET attempted == last'.completion # <<>>
              made == generate_and_validate(last'.completion, PastOf(u))
          IN  /\ last'.status = "insufficient"
                     <=> attempted /\ Len(made.valid_questions) < 10
              /\ last'.status = "insufficient" =>
                     /\ last'.llm_calls = 5
                     /\ questions' = questions
                     /\ session' = session
                     /\ users'[u].generate_count = users[u].generate_count
                     /\ users'[u].daily_generated_count
                            <= users[u].daily_generated_count
                     /\ FileStep(u) => users' = users]_vars

\* a topic request fails while the user holds an earlier batch
C6_Witness ==
    /\ last.op = "generate_from_text"
    /\ last.status = "insufficient"
    /\ last.llm_calls = 5
    /\ today = 1
    /\ Len(questions) = 10
    /\ session[last.user] # <<>>

\* C7: a successful request appends exactly 10 questions of the request's
\* user and theme: the accepted candidates in the order of acceptance across
\* the completion requests, numbered 1..10; the questions held before stay.
C7_FirstTenInOrder ==
    [][\A u \in Users : (TopicStep(u) \/ FileStep(u)) =>
          LET made == generate_and_validate(last'.completion, PastOf(u))
              n == Len(questions)
          IN  last'.status = "created" =>
                  /\ Len(made.valid_questions) >= 10
                  /\ Len(questions') = n + 10
                  /\ SubSeq(questions', 1, n) = questions
                  /\ \A k \in 1..10 :
                         /\ questions'[n + k] =
                                NewQuestion(u, last'.theme,
                                            made.valid_questions[k], k)
                         /\ accepts(questions'[n + k].question_text,
                                    PastOf(u))]_vars

\* a batch whose ten questions were collected over four completion requests
C7_Witness ==
    /\ last.status = "created"
    /\ last.llm_calls = 4
    /\ Len(questions) = 20
    /\ questions[20].question_number = 10
    /\ questions[11].question_number = 1

\* C8 as stated: a successful request adds 10 to generate_count; a topic
\* request of a non-premium user adds 10 to daily_generated_count; a file
\* request, or a premium user's, leaves daily_generated_count and
\* last_generated_date as they were.
C8_CountsAsStated ==
    [][\A u \in Users :
          ((TopicStep(u) \/ FileStep(u)) /\ last'.status = "created") =>
              /\ users'[u].generate_count = users[u].generate_count + 10
              /\ IF TopicStep(u) /\ ~users[u].is_premium
                 THEN users'[u].daily_generated_count
                          = users[u].daily_generated_count + 10
                 ELSE /\ users'[u].daily_generated_count
                            = users[u].daily_generated_count
                      /\ users'[u].last_generated_date
                            = users[u].last_generated_date]_vars

\* C8 amended: as stated, but the 10 are added to the count the quota check
\* left, which is 0 when the stored date was not today's.
C8_CountsAfterReset ==
    [][\A u \in Users :
          ((TopicStep(u) \/ FileStep(u)) /\ last'.status = "created") =>
              /\ users'[u].generate_count = users[u].generate_count + 10
              /\ IF TopicStep(u) /\ ~users[u].is_premium
                 THEN users'[u].daily_generated_count
                          = CountOfToday(users[u]) + 10
                 ELSE /\ users'[u].daily_generated_count
                            = users[u].daily_generated_count
                      /\ users'[u].last_generated_date
                            = users[u].last_generated_date]_vars

\* a premium user's topic batch, after a batch that was counted
C8_Witness ==
    /\ last.op = "generate_from_text"
    /\ last.status = "created"
    /\ users[last.user].is_premium
    /\ users[last.user].generate_count = 20
    /\ users[last.user].daily_generated_count = 10

\* the candidate blocks of the replies to the first k requests of a call
RECURSIVE CandidatesUpTo(_, _)
CandidatesUpTo(replies, k) ==
    IF k = 0 THEN <<>>
    ELSE CandidatesUpTo(replies, k - 1) \o BlocksOfReply[replies[k]]

\* C21: a request that reached the completion service accepts a candidate
\* block iff the block has at least 5 lines that are not blank, its first
\* line, trimmed, has at least 10 characters and, in a topic request only,
\* no stored question the request compares with has a ratio above 0.4 to
\* that line; an upload filters by nothing else.  The request creates the
\* first 10 accepted blocks of the replies it asked for, and fails exactly
\* when all its replies hold fewer than 10.
C21_AcceptedIffValid ==
    [][\A u \in Users :
          ((TopicStep(u) \/ FileStep(u)) /\ last'.completion # <<>>) =>
          LET past == IF TopicStep(u)
                      THEN PastQuestions(questions, u, last'.theme)
                      ELSE <<>>
              Acceptable(b) ==
                  LET shape == ShapeOfBlock[b]
                      ratios == SimilarityOf[StemId(shape.main_question)]
                  IN  /\ shape.non_empty_lines >= 5
                      /\ Len(shape.main_question) >= 10
                      /\ \A i \in 1..Len(past) :
                             5 * ratios[past[i]].num <= 2 * ratios[past[i]].den
              n == Len(questions)
          IN  \E accepted \in {SelectSeq(CandidatesUpTo(last'.completion,
                                                        last'.llm_calls),
                                         Acceptable)} :
                  /\ Len(past) <= 20
                  /\ last'.status \in {"created", "insufficient"}
                  /\ last'.status = "created" <=> Len(accepted) >= 10
                  /\ last'.status = "created" =>
                         \A k \in 1..10 :
                             questions'[n + k].question_text = accepted[k]]_vars

\* an upload was accepted whose blocks are the texts of the questions the
\* user holds from an earlier upload with the same theme
C21_Witness ==
    /\ last.op = "generate_from_file"
    /\ last.status = "created"
    /\ Len(questions) = 20
    /\ \A k \in 1..10 :
           /\ questions[k].user = last.user
           /\ questions[k].theme = last.theme
           /\ questions[10 + k].question_text = questions[k].question_text

\* C22: a generation request, however it ends, leaves the stored batch of
\* the session as it was or replaces it by the whole new batch: 10
\* references, numbered 1..10, to the 10 questions the request created for
\* its user and theme; no other session changes.
C22_BatchReplacedWhole ==
    [][\A u \in Users : (TopicStep(u) \/ FileStep(u)) =>
          LET n == Len(questions)
              batch == session'[u]
          IN  /\ \A v \in Users \ {u} : session'[v] = session[v]
              /\ \/ batch = session[u]
                 \/ /\ last'.status = "created"
                    /\ Len(batch) = 10
                    /\ \A k \in 1..10 :
                           /\ batch[k].question_number = k
                           /\ batch[k].question_id = n + k
                           /\ batch[k].theme = last'.theme
                           /\ questions'[n + k].user = u
                           /\ questions'[n + k].question_text
                                  = batch[k].question_text]_vars

\* a request failed after it had created 4 questions, and the session still
\* holds the batch of the 10 questions created before
C22_Witness ==
    /\ last.status = "error500"
    /\ last.cause = "DatabaseError"
    /\ Len(questions) = 14
    /\ Len(session[last.user]) = 10
    /\ \A k \in 1..10 : session[last.user][k].question_id = k

\* C23: the daily count is used for the current date only.  A topic request
\* of a non-premium user compares the count of today with the limit and
\* leaves the count of today, plus 10 when it created a batch, stored under
\* today's date; the index page shows the count of today.
C23_CountIsOfToday ==
    [][\A u \in Users :
          /\ (TopicStep(u) /\ ~users[u].is_premium) =>
                 /\ last'.status = "quota"
                        <=> CountOfToday(users[u]) >= DAILY_LIMIT
                 /\ users'[u].last_generated_date = Some(today)
                 /\ users'[u].daily_generated_count
                        = CountOfToday(users[u])
                          + (IF last'.status = "created" THEN 10 ELSE 0)
          /\ (last'.op = "index" /\ last'.user = u /\ today' = today) =>
                 Val(last'.context).daily_generated_count
                     = CountOfToday(users[u])]_vars

\* C23 without the index page: the limit check and the recording of usage
C23_RequestsUseToday ==
    [][\A u \in Users :
          (TopicStep(u) /\ ~users[u].is_premium) =>
              /\ last'.status = "quota"
                     <=> CountOfToday(users[u]) >= DAILY_LIMIT
              /\ users'[u].last_generated_date = Some(today)
              /\ users'[u].daily_generated_count
                     = CountOfToday(users[u])
                       + (IF last'.status = "created" THEN 10 ELSE 0)]_vars

\* C25: an upload of a type that is neither an image nor a PDF is answered
\* with the generation page and a message, not with a server error, asks the
\* completion service nothing and changes no question, session or user.
C25_UnsupportedShownInline ==
    [][\A u \in Users, uploaded_file \in Files :
          (/\ process_file_raises(uploaded_file)
           /\ GenerateFromFile(u, uploaded_file, Scripts)) =>
              /\ last'.status \notin {"error500", "created"}
              /\ last'.llm_calls = 0
              /\ UNCHANGED <<users, questions, session>>]_vars

\* C25 without the kind of response: such an upload asks nothing and changes
\* nothing
C25_UnsupportedChangesNothing ==
    [][\A u \in Users, uploaded_file \in Files :
          (/\ process_file_raises(uploaded_file)
           /\ GenerateFromFile(u, uploaded_file, Scripts)) =>
              /\ last'.status = "error500"
              /\ last'.llm_calls = 0
              /\ UNCHANGED <<users, questions, session>>]_vars

\* C26: the question an answer request grades and updates belongs to the
\* user of the request, and the request leaves the questions of the other
\* users as they were.
C26_OwnQuestionsOnly ==
    [][graded' = graded + 1 =>
          /\ questions[last'.question_id].user = last'.user
          /\ \A i \in 1..Len(questions) :
                questions[i].user # last'.user =>
                    questions'[i] = questions[i]]_vars

\* C26 for the requests that are not retries: they grade the user's own
\* question
C26_SessionModeOwn ==
    [][(graded' = graded + 1 /\ last'.question_id \in 1..Len(questions)
        /\ questions[last'.question_id].user # last'.user) =>
           /\ \E question_id \in RetryIds, user_answer \in UserAnswers :
                 AnswerQuestion(last'.user, "t1", 1, TRUE, <<>>, question_id,
                                user_answer)
           /\ ByUserTheme(questions, last'.user, "t1") # <<>>]_vars

\* C29: with requests handled one at a time, daily_generated_count is 0 or
\* 10; a topic request of a user who is not premium is refused iff the count
\* of today is 10, creates nothing when it is refused, and adds exactly 10
\* questions and leaves the count 10 under today's date when it creates; and
\* while the date and the user's plan stay, a count of 10 stays.  So such a
\* user gets at most 10 questions from topic requests on one date.
C29_DailyQuotaBound ==
    /\ [](\A u \in Users : users[u].daily_generated_count \in {0, 10})
    /\ [][\A u \in Users :
             /\ (TopicStep(u) /\ ~users[u].is_premium) =>
                    /\ last'.status = "quota" <=> CountOfToday(users[u]) = 10
                    /\ last'.status # "created" => questions' = questions
                    /\ last'.status = "created" =>
                           /\ Len(questions') = Len(questions) + 10
                           /\ users'[u].daily_generated_count = 10
                           /\ users'[u].last_generated_date = Some(today)
             /\ (/\ today' = today
                 /\ ~users[u].is_premium
                 /\ ~users'[u].is_premium
                 /\ CountOfToday(users[u]) = 10) =>
                    /\ users'[u].daily_generated_count = 10
                    /\ users'[u].last_generated_date = Some(today)
                    /\ Len(ByUserTheme(questions', u, "t1"))
                           = Len(ByUserTheme(questions, u, "t1"))]_vars

\* a user who is not premium is refused on the date of the user's batch
C29_Witness ==
    /\ last.op = "generate_from_text"
    /\ last.status = "quota"
    /\ ~users[last.user].is_premium
    /\ users[last.user].last_generated_date = Some(today)
    /\ users[last.user].daily_generated_count = 10
    /\ Len(ByUserTheme(questions, last.user, "t1")) = 10

\* C30: no user has more first attempts counted as correct than questions
\* counted as generated.
C30_CorrectWithinGenerated ==
    \A u \in Users : users[u].correct_count <= users[u].generate_count

-----------------------------------------------------------------------------
(* Properties of requests handled at the same time *)

\* a step in which worker r ends the request it handles
Finished(r) == inflight[r].phase # "idle" /\ inflight'[r].phase = "idle"

\* C24: a request that writes the user writes the counters of the object it
\* loaded, changed by its own update only, whatever was stored since: an
\* answer stores the loaded correct_count, plus 1 for a correct first
\* attempt, and a topic request that creates a batch stores the loaded
\* counts plus 10.  So an update stored in between is lost.
C24_LastWriteWins ==
    [][\A r \in Requests :
          LET u == inflight[r].user
              loaded == inflight[r].row
          IN  /\ (Finished(r) /\ last'.status = "answered") =>
                     users'[u].correct_count =
                         loaded.correct_count
                         + (IF last'.is_first /\ last'.is_correct
                            THEN 1 ELSE 0)
              /\ (Finished(r) /\ last'.status = "created"
                  /\ ~loaded.is_premium) =>
                     /\ users'[u].daily_generated_count =
                            loaded.daily_generated_count + 10
                     /\ users'[u].generate_count = loaded.generate_count + 10
                     /\ Len(questions') = Len(questions) + 10]_vars

\* 20 questions were created and two of them had a correct first attempt,
\* and the user's counters show one batch and one correct answer
C24_Witness ==
    /\ Len(questions) = 20
    /\ \A q \in 1..20 : questions[q].user = "u1"
    /\ questions[11].is_correct_first = Some(TRUE)
    /\ questions[12].is_correct_first = Some(TRUE)
    /\ users["u1"].correct_count = 1
    /\ users["u1"].daily_generated_count = 10
    /\ users["u1"].generate_count = 10
    /\ users["u1"].last_generated_date = Some(today)
    /\ ~users["u1"].is_premium

\* C27: a request that is not a webhook leaves the stored is_premium as it
\* is, so what a webhook wrote stays until the next webhook.
C27_PremiumKeptByRequests ==
    [][\A r \in Requests :
          Finished(r) =>
              users'[inflight[r].user].is_premium
                  = users[inflight[r].user].is_premium]_vars

\* C28: update_question returns is_first = true only to the first grading
\* of a question that is stored.
C28_OneFirstGrading ==
    [][\A r \in Requests :
          (Finished(r) /\ last'.status = "answered") =>
              (last'.is_first
                   <=> questions[last'.question_id].is_correct_first = None)
      ]_vars

\* C28 for the statistics: no more first attempts are counted as correct
\* than questions are graded
C28_CountedAtMostOnce ==
    \A u \in Users :
        users[u].correct_count
            <= Cardinality({q \in 1..Len(questions) :
                               questions[q].is_correct_first # None})

-----------------------------------------------------------------------------
(* Properties of the statistics and of the grading reply *)

\* C9: every step that changes a user's correct_count or generate_count
\* leaves accuracy = correct_count / generate_count * 100 of the new counts
\* if generate_count > 0, and leaves accuracy as it was if generate_count = 0.
C9_AccuracyFollowsCounts ==
    [][\A u \in Users :
          (\/ users'[u].correct_count # users[u].correct_count
           \/ users'[u].generate_count # users[u].generate_count) =>
              IF users'[u].generate_count > 0
              THEN users'[u].accuracy =
                       Rat(users'[u].correct_count * 100,
                           users'[u].generate_count)
              ELSE users'[u].accuracy = users[u].accuracy]_vars

\* C10: an answer request whose grading reply has no line that starts with
\* the correct-answer label parses it to an absent correct_option, completes,
\* judges the answer incorrect and records that on the question.
C10_UnlabelledJudgedIncorrect ==
    (last.op = "answer" /\ last.completion = <<"unlabelled">>) =>
        /\ GradingOf["unlabelled"].correct_option = None
        /\ last.status = "answered"
        /\ ~last.is_correct
        /\ LET question == questions[last.question_id]
           IN  IF last.is_first
               THEN question.is_correct_first = Some(FALSE)
               ELSE question.is_correct = Some(FALSE)

\* C14: a grading that is not the first of its question, right or wrong,
\* leaves the correct_count and the accuracy of the user as they were.
C14_RetryKeepsStatistics ==
    [][(Graded /\ ~last'.is_first) =>
          /\ users'[last'.user].correct_count = users[last'.user].correct_count
          /\ users'[last'.user].accuracy = users[last'.user].accuracy]_vars

\* the questions of a user for which no grading has been recorded
Ungraded(u) ==
    {q \in QuestionIds :
        /\ questions[q].user = u
        /\ questions[q].is_correct_first = None
        /\ questions[q].is_correct = None}

\* C15: right after update_not_answered_count for a user, the user's
\* not_answered_count is the number of the user's questions for which no
\* grading has been recorded.
C15_CountsUngraded ==
    last.op = "update_not_answered_count"
        => users[last.user].not_answered_count = Cardinality(Ungraded(last.user))

-----------------------------------------------------------------------------
(* Properties of the views *)

NotFound == {"IndexError", "no_questions", "DoesNotExist", "no_explanation"}

\* C11: a request of the question, answer or explanation view that meets a
\* NotFound condition (no question for the topic, an index out of range, a
\* question id that names no question of the user, an explanation not yet
\* generated) is answered with a redirect to a listing view.
C11_NotFoundRedirects ==
    (last.op \in {"question", "answer", "explanation"}
        /\ last.cause \in NotFound)
        => last.status \in {"redirect_keyword", "redirect_generate"}

\* C16: a request of the explanation view changes no row and no session;
\* the page it renders reports is_correct_first of the question, which is
\* set on every question that has an explanation, so the result of the
\* first attempt whatever was graded later; it reports one question in
\* total, no next question, and has its four display flags off.
C16_ExplanationShowsFirst ==
    [][last'.op = "explanation" =>
          /\ UNCHANGED <<users, questions, session, graded>>
          /\ last'.status = "rendered" =>
                 LET context == Val(last'.context)
                     question == questions[last'.question_id]
                 IN  /\ question.is_correct_first # None
                     /\ context.is_correct = question.is_correct_first
                     /\ context.total_questions = 1
                     /\ ~context.has_next
                     /\ ~context.show_back_link
                     /\ ~context.show_user_answer
                     /\ ~context.show_images
                     /\ ~context.show_next_button]_vars

\* the explanation of a question graded right at first and wrong later
C16_Witness ==
    /\ last.op = "explanation"
    /\ last.status = "rendered"
    /\ questions[last.question_id].is_correct_first = Some(TRUE)
    /\ questions[last.question_id].is_correct = Some(FALSE)
    /\ Val(last.context).is_correct = Some(TRUE)

-----------------------------------------------------------------------------
(* Properties of the webhook *)

\* the webhook request that a step handles, and its event
Posted == last'.op = "stripe_webhook"

PostedEvent == Val(last'.context)

\* the users an event is about: the user with the e-mail address of a
\* checkout, the user whose stored customer reference is the customer of a
\* deleted subscription or of a paid invoice
EventUsers(event) ==
    IF event.type = "checkout.session.completed"
    THEN {u \in Users : event.customer_email = Some(u)}
    ELSE {u \in Users : /\ event.customer # None
                        /\ users[u].stripe_customer_id = event.customer}

\* C12: a verified event that was processed leaves the premium flag of the
\* user it is about as its kind says: a completed checkout with an e-mail
\* address and a subscription id sets it and records an active subscription
\* with the ids of the event, a deleted subscription clears it, a paid
\* invoice sets it; and no request changes the flag of any other user, nor
\* the flag of that user when the event is of another kind.
C12_PremiumFollowsEvent ==
    [][Posted =>
        \A u \in Users :
            LET event == PostedEvent
                about == last'.status = "200" /\ u \in EventUsers(event)
            IN  IF about /\ event.type = "checkout.session.completed"
                         /\ event.subscription # None
                THEN /\ users'[u].is_premium
                     /\ users'[u].subscription # None
                     /\ Val(users'[u].subscription).active
                     /\ Val(users'[u].subscription).stripe_subscription_id
                            = Val(event.subscription)
                     /\ Val(users'[u].subscription).stripe_customer_id
                            = event.customer
                ELSE IF about /\ event.type = "customer.subscription.deleted"
                THEN ~users'[u].is_premium
                ELSE IF about /\ event.type = "invoice.payment_succeeded"
                THEN users'[u].is_premium
                ELSE users'[u].is_premium = users[u].is_premium]_vars

\* a subscription-deleted event was processed for a user who had checked out
C12_Witness ==
    /\ last.op = "stripe_webhook"
    /\ last.status = "200"
    /\ Val(last.context).type = "customer.subscription.deleted"
    /\ \E u \in Users :
           /\ users[u].stripe_customer_id = Val(last.context).customer
           /\ users[u].subscription # None
           /\ ~users[u].is_premium

RecognizedTypes ==
    {"checkout.session.completed", "customer.subscription.deleted",
     "invoice.payment_succeeded"}

\* C13: a webhook request that fails verification is answered with status
\* 400, a verified event of an unrecognized kind with status 200, and
\* neither changes any row: no premium flag, no stored customer reference
\* and no subscription record.
C13_RejectedOrIgnored ==
    [][Posted =>
        /\ last'.cause \in {"ValueError", "SignatureVerificationError"}
            => (last'.status = "400" /\ users' = users)
        /\ (last'.cause = "" /\ PostedEvent.type \notin RecognizedTypes)
            => (last'.status = "200" /\ users' = users)]_vars

\* a request that failed verification held a subscription-deleted event for
\* a premium user, and was rejected
C13_Witness ==
    /\ last.op = "stripe_webhook"
    /\ last.status = "400"
    /\ Val(last.context).type = "customer.subscription.deleted"
    /\ \E u \in Users :
           /\ users[u].stripe_customer_id = Val(last.context).customer
           /\ users[u].is_premium

\* an event of an unrecognized kind about a premium user was accepted
C13_IgnoredWitness ==
    /\ last.op = "stripe_webhook"
    /\ last.status = "200"
    /\ Val(last.context).type \notin RecognizedTypes
    /\ \E u \in Users :
           /\ users[u].stripe_customer_id = Val(last.context).customer
           /\ users[u].is_premium

-----------------------------------------------------------------------------
(* Properties of the display services *)

\* C17: clean_question_text removes the leading numbering run, trims, cuts
\* the text at the first full-width question mark or full-width period,
\* whichever comes first, trims and ends the result with a full-width
\* question mark; a text with neither is returned trimmed.
C17_CutAtFirstTerminator ==
    last.op = "clean_question_text" =>
        LET text == Strip(RemoveNumbering(Val(last.context).text))
            terminators == {i \in 1..Len(text) : text[i] \in {"QM", "MARU"}}
        IN  Val(Val(last.context).returned) =
                IF terminators = {}
                THEN text
                ELSE Strip(SubSeq(text, 1, Min(terminators) - 1)) \o <<"QM">>

\* the lines after the first that, trimmed, start with "(" and that hold ")"
IsOptionLine(line) ==
    /\ Strip(line) # <<>>
    /\ Head(Strip(line)) = "("
    /\ \E i \in 1..Len(line) : line[i] = ")"

Parentheses == {"(", ")"}

\* the text between the first "(" of a line and the first ")" after it, and
\* the text after that ")"
Opening(line) == Min({i \in 1..Len(line) : line[i] = "("})

Closing(line) == Min({i \in Opening(line)..Len(line) : line[i] = ")"})

WithoutParentheses(s) == SelectSeq(s, LAMBDA c : c \notin Parentheses)

-----------------------------------------------------------------------------
(* Properties of the similarity check and of the generation loop *)

\* the positions of the past texts whose ratio to the new text is above 0.4
Above(call) ==
    {i \in 1..Len(call.past_questions) :
        LET r == ratio(call.new_question, call.past_questions[i])
        IN  5 * r.num > 2 * r.den}

\* C19: is_similar returns True exactly when the ratio of some past text is
\* strictly above the threshold, a ratio equal to it not counting; it then
\* has examined the past texts up to the first such one and no later one;
\* with no past text it returns False.
C19_StrictAndShortCircuit ==
    last.op = "is_similar" =>
        LET call == Val(last.context)
            returned == Val(call.returned)
        IN  /\ returned.result = (Above(call) # {})
            /\ returned.examined =
                   IF Above(call) # {} THEN Min(Above(call))
                   ELSE Len(call.past_questions)
            /\ call.past_questions = <<>> => ~returned.result

\* a call whose first past text has a ratio of exactly 0.4 and whose second
\* is above it returned True at the second and did not examine the third
C19_Witness ==
    /\ last.op = "is_similar"
    /\ LET call == Val(last.context)
       IN  /\ Len(call.past_questions) = 3
           /\ ratio(call.new_question, call.past_questions[1]) = Rat(2, 5)
           /\ Val(call.returned) = [result |-> TRUE, examined |-> 2]

\* the blocks of the first k replies of a call that pass the validation
RECURSIVE AcceptedUpTo(_, _)
AcceptedUpTo(call, k) ==
    IF k = 0 THEN <<>>
    ELSE AcceptedUpTo(call, k - 1)
             \o SelectSeq(BlocksOfReply[call.replies[k]],
                          LAMBDA b : accepts(b, call.past_questions))

\* C20: a call of generate_and_validate issues at least one and at most 5
\* requests; it issues a further request only while the blocks accepted
\* from the replies so far are fewer than 10, and stops before the fifth
\* only when they are 10 or more; it returns the blocks accepted from the
\* replies it requested, in their order, cut after the tenth.
C20_LoopIsBounded ==
    last.op = "generate_and_validate" =>
        LET call == Val(last.context)
            returned == Val(call.returned)
            accepted == AcceptedUpTo(call, returned.requests)
        IN  /\ returned.requests \in 1..5
            /\ Len(returned.valid_questions) <= 10
            /\ \A k \in 1..(returned.requests - 1) :
                   Len(AcceptedUpTo(call, k)) < 10
            /\ returned.requests < 5 => Len(accepted) >= 10
            /\ returned.valid_questions =
                   SubSeq(accepted, 1,
                          IF Len(accepted) < 10 THEN Len(accepted) ELSE 10)

\* a call reached its tenth block at the third or fourth request, in the
\* middle of a reply, after it had accepted some blocks from the first
C20_Witness ==
    /\ last.op = "generate_and_validate"
    /\ LET call == Val(last.context)
           returned == Val(call.returned)
       IN  /\ returned.requests \in {3, 4}
           /\ Len(returned.valid_questions) = 10
           /\ Len(AcceptedUpTo(call, 1)) \in 1..9
           /\ Len(AcceptedUpTo(call, returned.requests)) > 10

====
